---- MODULE Spec2Model ----
(***************************************************************************)
(* A model of cleancat's second-generation validation engine ("chausie"):  *)
(* the Field validator chain with its nullability policy                   *)
(* (cleancat/chausie/field.py), the construction-time dependency check     *)
(* (cleancat/chausie/schema.py) and the dependency-ordered evaluator       *)
(* `clean` (cleancat/chausie/schema_definition.py).                        *)
(*                                                                         *)
(* Python objects are records whose first field, cls, names their class;   *)
(* an ordered dict is a sequence of <<key, value>> pairs.                  *)
(***************************************************************************)
EXTENDS Integers, Sequences, FiniteSets, TLC

\* ------------------------------------------------------------------------
\* Bounds of the model
\* ------------------------------------------------------------------------

\* the largest number of fields of a schema of the dependency family
MaxFields == 3

\* the largest length of a list given to a list field
MaxLen == 2

\* ------------------------------------------------------------------------
\* Python values
\* ------------------------------------------------------------------------

\* consts.py: the singleton for omitted values
omitted == [cls |-> "OMITTED", v |-> "omitted"]

\* consts.py: the singleton for omitted options/kwargs
empty == [cls |-> "EMPTY", v |-> "empty"]

None == [cls |-> "NoneType", v |-> "None"]

PyStr(s) == [cls |-> "str", v |-> s]

PyInt(i) == [cls |-> "int", v |-> i]

PyBool(b) == [cls |-> "bool", v |-> b]

\* a datetime.datetime, named by its ISO form
PyDatetime(iso) == [cls |-> "datetime", v |-> iso]

PyList(elems) == [cls |-> "list", v |-> elems]

PyTuple(elems) == [cls |-> "tuple", v |-> elems]

\* an object built by a user validator from its keyword arguments
Obj(kwargs) == [cls |-> "object", v |-> kwargs]

\* ------------------------------------------------------------------------
\* Ordered dicts
\* ------------------------------------------------------------------------

DictKeys(d) == {d[i][1] : i \in DOMAIN d}

DictGet(d, key) == d[CHOOSE i \in DOMAIN d : d[i][1] = key][2]

\* d[key] = val: an existing key keeps its position, a new key goes last
DictSet(d, key, val) ==
    IF key \in DictKeys(d)
    THEN [i \in DOMAIN d |-> IF d[i][1] = key THEN <<key, val>> ELSE d[i]]
    ELSE Append(d, <<key, val>>)

\* itertools.chain(*seqs)
RECURSIVE Flat(_)
Flat(seqs) == IF seqs = <<>> THEN <<>> ELSE Head(seqs) \o Flat(Tail(seqs))

\* ------------------------------------------------------------------------
\* field.py: result types
\* ------------------------------------------------------------------------

ValidationError(errors) == [cls |-> "ValidationError", errors |-> errors]

Error(msg, field) == [cls |-> "Error", field |-> field, msg |-> msg]

Errors(errors, field) == [cls |-> "Errors", errors |-> errors, field |-> field]

Value(value) == [cls |-> "Value", value |-> value]

UnvalidatedWrappedValue(value, inner_field) ==
    [cls |-> "UnvalidatedWrappedValue", inner_field |-> inner_field,
     value |-> value]

\* an exception that propagates out of the call
Raise(exc) == [cls |-> "Raise", exc |-> exc]

Required(allow_none) ==
    [cls |-> "Required", allow_none |-> allow_none, omitted_value |-> omitted]

Optional(allow_none, omitted_value) ==
    [cls |-> "Optional", allow_none |-> allow_none,
     omitted_value |-> omitted_value]

wrap_result(field, result) ==
    IF result.cls = "Error" THEN Error(result.msg, field \o result.field)
    ELSE IF result.cls # "Value" THEN Value(result)
    ELSE result

\* Errors.flatten
flatten(self) ==
    [i \in DOMAIN self.errors |-> wrap_result(self.field, self.errors[i])]

\* ------------------------------------------------------------------------
\* field.py: validators and the field constructor
\* ------------------------------------------------------------------------

\* inspect.Parameter.empty: the parameter has no default
NoDefault == [cls |-> "inspect._empty", v |-> "no default"]

Function(fn, params, context_default) ==
    [cls |-> "function", fn |-> fn, params |-> params,
     context_default |-> context_default]

noop == Function("noop", {"value"}, NoDefault)

strfield == Function("strfield", {"value"}, NoDefault)

intfield == Function("intfield", {"value"}, NoDefault)

boolfield == Function("boolfield", {"value"}, NoDefault)

\* the function decorated into the field datetimefield
datetimefield_func == Function("datetimefield", {"value"}, NoDefault)

\* int(value) on the strings of the model that Python parses as an int
IntLiterals ==
    [s \in {"0", "5", "42", "-1"} |->
        CASE s = "0" -> 0 [] s = "5" -> 5 [] s = "42" -> 42 [] s = "-1" -> 0 - 1]

\* a date as datetime.now() gives it: dateutil's parser.parse fills the
\* fields a string leaves out from datetime.now() at midnight
Date(year, month, day) == [year |-> year, month |-> month, day |-> day]

\* dateutil's parser.parse(value), run on the date today, on the strings of
\* the model that it parses, as the ISO form of the datetime it gives: a
\* lone number is a day of the month (up to 31) or a year of this century;
\* a day the month of the resulting year does not have (29 February in
\* 2042) becomes the last day of that month
DateLiterals(today) ==
    [s \in {"2020-01-01", "2020-01-01T10:30:00", "5", "42", "-1"} |->
        CASE s = "2020-01-01" -> "2020-01-01T00:00:00"
          [] s = "2020-01-01T10:30:00" -> s
          [] s = "5" -> today.year \o "-" \o today.month \o "-05T00:00:00"
          [] s = "42" ->
                "2042-" \o today.month \o "-"
                \o (IF today.month = "02" /\ today.day = "29"
                    THEN "28" ELSE today.day)
                \o "T00:00:00"
          [] s = "-1" -> today.year \o "-" \o today.month \o "-01T00:00:00"]

\* WrapperField.__call__ of a _ListField around inner_field
listfield(inner_field) ==
    [cls |-> "function", fn |-> "listfield", params |-> {"value"},
     context_default |-> NoDefault, inner_field |-> inner_field]

\* a class that subclasses Schema, with the given fields: it has the class
\* method clean
SchemaSubclass(fields) == [cls |-> "Schema subclass", fields |-> fields]

\* the class the schema() decorator builds from the given fields: it has no
\* attribute clean
SchemaCls(fields) == [cls |-> "SchemaCls", fields |-> fields]

\* SchemaDefinition(fields=...): it has no attribute clean
SchemaDefinitionObject(fields) == [cls |-> "SchemaDefinition", fields |-> fields]

\* _NestedField.__call__ of a nested field around the schema inner_schema;
\* its context parameter defaults to empty
nestedfield(inner_schema) ==
    [cls |-> "function", fn |-> "nestedfield", params |-> {"value", "context"},
     context_default |-> empty, inner_schema |-> inner_schema]

\* a user validator that returns Error(msg="nope")
\* (tests/chausie/test_schema.py, test_field_dependencies_error.a)
nope(params, context_default) == Function("nope", params, context_default)

\* a user validator that builds an object out of the arguments it is given
\* (tests/chausie/test_schema.py, test_field_dependencies.b)
make(params, context_default) == Function("make", params, context_default)

Field(validators, accepts, serialize_to, serialize_func, nullability, depends_on) ==
    [cls |-> "Field", validators |-> validators, accepts |-> accepts,
     serialize_to |-> serialize_to, serialize_func |-> serialize_func,
     nullability |-> nullability, depends_on |-> depends_on]

\* field(decorated_func, parents=..., accepts=..., nullability=...);
\* decorated_func is None when field(...)() is applied to nothing
field_decorator(decorated_func, parents, accepts, serialize_to, serialize_func, nullability) ==
    LET inner_func == IF decorated_func = None THEN noop ELSE decorated_func
        ps == Append(parents, inner_func)
        validators ==
            Flat([i \in DOMAIN ps |->
                    IF ps[i].cls = "Field" THEN ps[i].validators
                    ELSE <<ps[i]>>])
        deps == UNION {validators[i].params : i \in DOMAIN validators}
                    \ {"context", "value"}
    IN  Field(validators, accepts, serialize_to, serialize_func, nullability,
              deps)

\* ------------------------------------------------------------------------
\* field.py: Field.run_validators
\* ------------------------------------------------------------------------

\* run_validators._get_deps: the names of the parameters of func
get_deps(func) == func.params

\* the body of a validator, called with the keyword arguments kwargs
Apply(func, kwargs, today) ==
    CASE func.fn = "noop" -> kwargs["value"]
      [] func.fn = "strfield" ->
            IF kwargs["value"].cls = "str" THEN kwargs["value"]
            ELSE Error("Unhandled type", <<>>)
      [] func.fn = "listfield" ->
            IF kwargs["value"].cls \in {"list", "tuple"}
            THEN UnvalidatedWrappedValue(kwargs["value"], func.inner_field)
            ELSE Error("Unhandled type", <<>>)
      [] func.fn = "intfield" ->
            IF kwargs["value"].cls \in {"int", "bool"} THEN kwargs["value"]
            ELSE IF kwargs["value"].cls = "str"
            THEN IF kwargs["value"].v \in DOMAIN IntLiterals
                 THEN PyInt(IntLiterals[kwargs["value"].v])
                 ELSE Error("Unable to parse int from given string.", <<>>)
            ELSE Error("Unhandled type, could not coerce.", <<>>)
      [] func.fn = "boolfield" ->
            IF kwargs["value"].cls = "bool" THEN kwargs["value"]
            ELSE Error("Value is not a boolean.", <<>>)
      [] func.fn = "datetimefield" ->
            IF kwargs["value"].cls # "str" THEN Raise("TypeError")
            ELSE IF kwargs["value"].v \in DOMAIN DateLiterals(today)
            THEN PyDatetime(DateLiterals(today)[kwargs["value"].v])
            ELSE Error("Could not parse datetime.", <<>>)
      [] func.fn = "nope" -> Error("nope", <<>>)
      [] func.fn = "make" -> Obj(kwargs)

\* inject_deps, had it passed the missing context on instead of raising
inject_deps_NoContextCheck(func, val, context, intermediate_results) ==
    LET deps == get_deps(func)
        fromResults == DictKeys(intermediate_results) \cap deps
        fromCall == {"context", "value"} \cap deps
    IN  IF deps = {} THEN [cls |-> "partial", kwargs |-> <<>>]
        ELSE IF \E dep \in fromResults :
                    DictGet(intermediate_results, dep).cls # "Value"
        THEN Raise("AttributeError")
        ELSE IF fromResults \cap fromCall # {}
        THEN Raise("TypeError")
        ELSE [cls |-> "partial",
              kwargs |->
                [dep \in fromResults \cup fromCall |->
                    IF dep \in fromResults
                    THEN DictGet(intermediate_results, dep).value
                    ELSE IF dep = "context" THEN context ELSE val]]

\* inject_deps, had it raised only for a context parameter without default
inject_deps_RaisesOnlyWithoutDefault(func, val, context, intermediate_results) ==
    LET deps == get_deps(func)
        fromResults == DictKeys(intermediate_results) \cap deps
        fromCall == {"context", "value"} \cap deps
    IN  IF deps = {} THEN [cls |-> "partial", kwargs |-> <<>>]
        ELSE IF /\ "context" \in deps
                /\ context = empty
                /\ func.context_default = NoDefault
        THEN Raise("ValueError")
        ELSE IF \E dep \in fromResults :
                    DictGet(intermediate_results, dep).cls # "Value"
        THEN Raise("AttributeError")
        ELSE IF fromResults \cap fromCall # {}
        THEN Raise("TypeError")
        ELSE [cls |-> "partial",
              kwargs |->
                [dep \in fromResults \cup fromCall |->
                    IF dep \in fromResults
                    THEN DictGet(intermediate_results, dep).value
                    ELSE IF dep = "context" THEN context ELSE val]]

\* inject_deps, had it passed the result of a sibling field as it is stored,
\* without unwrapping its value
inject_deps_PassesWrapped(func, val, context, intermediate_results) ==
    LET deps == get_deps(func)
        fromResults == DictKeys(intermediate_results) \cap deps
        fromCall == {"context", "value"} \cap deps
    IN  IF deps = {} THEN [cls |-> "partial", kwargs |-> <<>>]
        ELSE IF /\ "context" \in deps
                /\ context = empty
                /\ func.context_default # empty
        THEN Raise("ValueError")
        ELSE IF fromResults \cap fromCall # {}
        THEN Raise("TypeError")
        ELSE [cls |-> "partial",
              kwargs |->
                [dep \in fromResults \cup fromCall |->
                    IF dep \in fromResults
                    THEN DictGet(intermediate_results, dep)
                    ELSE IF dep = "context" THEN context ELSE val]]

\* inject_deps, had the results of the sibling fields been put over the
\* value and the context of the call
inject_deps_ResultsFirst(func, val, context, intermediate_results) ==
    LET deps == get_deps(func)
        fromResults == DictKeys(intermediate_results) \cap deps
        fromCall == {"context", "value"} \cap deps
    IN  IF deps = {} THEN [cls |-> "partial", kwargs |-> <<>>]
        ELSE IF /\ "context" \in deps
                /\ context = empty
                /\ func.context_default # empty
        THEN Raise("ValueError")
        ELSE IF \E dep \in fromResults :
                    DictGet(intermediate_results, dep).cls # "Value"
        THEN Raise("AttributeError")
        ELSE [cls |-> "partial",
              kwargs |->
                [dep \in fromResults \cup fromCall |->
                    IF dep \in fromResults
                    THEN DictGet(intermediate_results, dep).value
                    ELSE IF dep = "context" THEN context ELSE val]]

\* run_validators.inject_deps: the keyword arguments func is called with,
\* or the exception raised while they are put together
inject_deps(func, val, context, intermediate_results) ==
    LET deps == get_deps(func)
        fromResults == DictKeys(intermediate_results) \cap deps
        fromCall == {"context", "value"} \cap deps
    IN  IF deps = {} THEN [cls |-> "partial", kwargs |-> <<>>]
        ELSE IF /\ "context" \in deps
                /\ context = empty
                /\ func.context_default # empty
        THEN Raise("ValueError")
        ELSE IF \E dep \in fromResults :
                    DictGet(intermediate_results, dep).cls # "Value"
        THEN Raise("AttributeError")
        ELSE IF fromResults \cap fromCall # {}
        THEN Raise("TypeError")
        ELSE [cls |-> "partial",
              kwargs |->
                [dep \in fromResults \cup fromCall |->
                    IF dep \in fromResults
                    THEN DictGet(intermediate_results, dep).value
                    ELSE IF dep = "context" THEN context ELSE val]]

\* one entry of the log of validator calls
CallEntry(field, index, func, kwargs) ==
    [field |-> field, index |-> index, func |-> func, kwargs |-> kwargs]

\* one outcome of run_validators: its return value (or the exception it
\* raised) and the validator calls it made, in order
Outcome(result, calls) == [result |-> result, calls |-> calls]

\* the outcome out, its calls following the earlier calls
Prepend(calls, out) == Outcome(out.result, calls \o out.calls)

RECURSIVE run_validators(_, _, _, _, _, _)
RECURSIVE Chain(_, _, _, _, _, _, _, _)
RECURSIVE InnerResults(_, _, _, _, _, _, _, _)
RECURSIVE clean(_, _, _, _)

\* SchemaCls.__init__(**kwargs): an instance of a schema class, the keywords
\* that name a field of the class being set as attributes
SchemaInstance(fields, attrs) ==
    [cls |-> "Schema",
     v |-> SelectSeq(attrs, LAMBDA kv : kv[1] \in DictKeys(fields))]

\* the end of Schema.clean: r being what clean of the fields gave, an
\* instance of the class or the ValidationError
Schema_return(fields, r) ==
    IF r.result.cls = "dict"
    THEN Outcome(SchemaInstance(fields, r.result.v), r.calls)
    ELSE r

\* Schema.clean(data, context): clean of the fields of the schema class,
\* giving an instance of the class or the ValidationError
Schema_clean(fields, data, context, today) ==
    Schema_return(fields, clean(fields, data, context, today))

\* NestedField_return, had it kept only the first error of the inner schema
NestedField_return_KeepsFirstError(r) ==
    IF r.result.cls = "ValidationError"
    THEN Outcome(Errors(<<r.result.errors[1]>>, <<>>), r.calls)
    ELSE IF r.result.cls \in {"Schema", "Raise"} THEN r
    ELSE Outcome(Raise("TypeError"), r.calls)

\* the end of _NestedField.__call__, result being what the inner schema's
\* clean gave: a ValidationError becomes Errors(errors=result.errors), an
\* instance is returned, an exception of clean goes on, and anything else
\* raises TypeError
NestedField_return(r) ==
    IF r.result.cls = "ValidationError"
    THEN Outcome(Errors(r.result.errors, <<>>), r.calls)
    ELSE IF r.result.cls \in {"Schema", "Raise"} THEN r
    ELSE Outcome(Raise("TypeError"), r.calls)

\* NestedField_call, had it kept only the first error of the inner schema
NestedField_call_KeepsFirstError(func, value, context, today) ==
    IF func.inner_schema.cls # "Schema subclass"
    THEN Outcome(Raise("AttributeError"), <<>>)
    ELSE NestedField_return_KeepsFirstError(
             Schema_clean(func.inner_schema.fields, value, context, today))

\* NestedField_call, had it cleaned the inner schema without the context
NestedField_call_DropsContext(func, value, context, today) ==
    IF func.inner_schema.cls # "Schema subclass"
    THEN Outcome(Raise("AttributeError"), <<>>)
    ELSE NestedField_return(
             Schema_clean(func.inner_schema.fields, value, empty, today))

\* _NestedField.__call__(value, context): self.inner_schema.clean(value,
\* context=context) is an AttributeError when the inner schema is not a
\* subclass of Schema
NestedField_call(func, value, context, today) ==
    IF func.inner_schema.cls # "Schema subclass"
    THEN Outcome(Raise("AttributeError"), <<>>)
    ELSE NestedField_return(
             Schema_clean(func.inner_schema.fields, value, context, today))

\* the call of a validator with the keyword arguments kwargs: what it
\* returns or raises, and the validator calls made inside it
Call(func, kwargs, today) ==
    IF func.fn = "nestedfield"
    THEN NestedField_call(func, kwargs["value"], kwargs["context"], today)
    ELSE Outcome(Apply(func, kwargs, today), <<>>)

\* construct, had it kept the Value wrappers of the elements
construct_KeepsWrappers(values) == PyList(values)

\* _ListField.construct
construct(values) == PyList([j \in DOMAIN values |-> values[j].value])

\* InnerResults, had it stopped at the first element that fails
RECURSIVE InnerResults_StopsAtFirstError(_, _, _, _, _, _, _, _)
RECURSIVE InnerNext_StopsAtFirstError(_, _, _, _, _, _, _, _)
InnerNext_StopsAtFirstError(inner_field, elems, idx, context, today, intermediate_results, acc, r) ==
    IF r.result.cls \in {"Raise", "Errors"}
    THEN Outcome(Append(acc, r.result), r.calls)
    ELSE InnerResults_StopsAtFirstError(
             inner_field, elems, idx + 1, context, today, intermediate_results,
             Append(acc, r.result), r.calls)

InnerResults_StopsAtFirstError(inner_field, elems, idx, context, today, intermediate_results, acc, calls) ==
    IF idx > Len(elems) THEN Outcome(acc, calls)
    ELSE InnerNext_StopsAtFirstError(
             inner_field, elems, idx, context, today, intermediate_results, acc,
             Prepend(calls,
                     run_validators(inner_field, <<PyInt(idx - 1)>>,
                                    elems[idx], context, today,
                                    intermediate_results)))

\* the list comprehension after the element idx gave r (its calls following
\* the earlier ones): an exception ends it, otherwise the next element
RECURSIVE InnerNext(_, _, _, _, _, _, _, _)
InnerNext(inner_field, elems, idx, context, today, intermediate_results, acc, r) ==
    IF r.result.cls = "Raise"
    THEN Outcome(Append(acc, r.result), r.calls)
    ELSE InnerResults(inner_field, elems, idx + 1, context, today,
                      intermediate_results, Append(acc, r.result), r.calls)

\* the list comprehension of run_validators over the elements of a wrapped
\* value, from element idx (1-based) on: the results of the elements, in
\* order, the last one being the exception if an element raised
InnerResults(inner_field, elems, idx, context, today, intermediate_results, acc, calls) ==
    IF idx > Len(elems) THEN Outcome(acc, calls)
    ELSE InnerNext(inner_field, elems, idx, context, today, intermediate_results,
                   acc,
                   Prepend(calls,
                           run_validators(inner_field, <<PyInt(idx - 1)>>,
                                          elems[idx], context, today,
                                          intermediate_results)))

\* the UnvalidatedWrappedValue branch of the loop over self.validators,
\* inner being the results of the elements: an exception of an element is
\* raised, an Error of an element is kept as it is and the Errors of
\* elements are flattened, and otherwise the list is
\* constructed and handed to validator i + 1
RECURSIVE ChainWrapped(_, _, _, _, _, _, _)
ChainWrapped(self, field, i, context, today, intermediate_results, inner) ==
    IF \E j \in DOMAIN inner.result : inner.result[j].cls = "Raise"
    THEN Outcome(inner.result[Len(inner.result)], inner.calls)
    ELSE
    LET inner_results == inner.result
        flattened_errors ==
            Flat([j \in DOMAIN inner_results |->
                    IF inner_results[j].cls = "Error"
                    THEN <<inner_results[j]>>
                    ELSE IF inner_results[j].cls = "Errors"
                    THEN flatten(inner_results[j])
                    ELSE <<>>])
    IN  IF flattened_errors # <<>>
        THEN Outcome(Errors(flattened_errors, field), inner.calls)
        ELSE Chain(self, field, i + 1, construct(inner_results),
                   context, today, intermediate_results, inner.calls)

\* ChainCalled, had an Error not ended the chain: the validators after i are
\* called all the same, and the error of validator i is returned
ChainCalled_CallsNextAfterError(self, field, i, context, today, intermediate_results, out) ==
    LET r == out.result
        called == out.calls
    IN  IF r.cls = "Raise" THEN Outcome(r, called)
        ELSE IF r.cls = "Errors"
        THEN Outcome(Errors(flatten(r), field), called)
        ELSE IF r.cls = "Error"
        THEN Outcome(Errors(<<r>>, field),
                     Chain(self, field, i + 1, r, context, today,
                           intermediate_results, called).calls)
        ELSE IF r.cls = "UnvalidatedWrappedValue"
        THEN ChainWrapped(self, field, i, context, today, intermediate_results,
                          InnerResults(r.inner_field, r.value.v, 1, context, today,
                                       intermediate_results, <<>>, called))
        ELSE Chain(self, field, i + 1, r, context, today, intermediate_results,
                   called)

\* the body of the loop over self.validators after validator i was called,
\* out being what the call gave (its calls following the earlier ones)
RECURSIVE ChainCalled(_, _, _, _, _, _, _)
ChainCalled(self, field, i, context, today, intermediate_results, out) ==
    LET r == out.result
        called == out.calls
    IN  IF r.cls = "Raise" THEN Outcome(r, called)
        ELSE IF r.cls = "Errors"
        THEN Outcome(Errors(flatten(r), field), called)
        ELSE IF r.cls = "Error"
        THEN Outcome(Errors(<<r>>, field), called)
        ELSE IF r.cls = "UnvalidatedWrappedValue"
        THEN ChainWrapped(self, field, i, context, today, intermediate_results,
                          InnerResults(r.inner_field, r.value.v, 1, context, today,
                                       intermediate_results, <<>>, called))
        ELSE Chain(self, field, i + 1, r, context, today, intermediate_results,
                   called)

\* the loop over self.validators, from validator i on, result being the
\* running value
Chain(self, field, i, result, context, today, intermediate_results, calls) ==
    IF i > Len(self.validators)
    THEN Outcome(wrap_result(field, result), calls)
    ELSE
    LET validator == self.validators[i]
        partial == inject_deps(validator, result, context,
                               intermediate_results)
    IN  IF partial.cls = "Raise" THEN Outcome(partial, calls)
        ELSE IF get_deps(validator) \ DOMAIN partial.kwargs # {}
        THEN Outcome(Raise("TypeError"), calls)
        ELSE ChainCalled(self, field, i, context, today, intermediate_results,
                         Prepend(Append(calls,
                                        CallEntry(field, i, validator,
                                                  partial.kwargs)),
                                 Call(validator, partial.kwargs, today)))

\* HandlesNullability, had it not looked at the parameters of the validators
HandlesNullability_AnyChain(self, value) == value \in {omitted, None}

\* the nullability of self is looked at: value is omitted or None and some
\* validator declares a parameter named value
HandlesNullability(self, value) ==
    /\ value \in {omitted, None}
    /\ \E i \in DOMAIN self.validators :
            "value" \in get_deps(self.validators[i])

\* handle_nullability, had it returned the omitted sentinel whatever the
\* configured omitted_value
handle_nullability_IgnoresDefault(self, field, value) ==
    IF value = None
    THEN IF self.nullability.allow_none
         THEN Value(value)
         ELSE Errors(<<Error("Value is required, and must not be None.",
                             <<>>)>>, field)
    ELSE IF self.nullability.cls = "Required"
    THEN Errors(<<Error("Value is required.", <<>>)>>, field)
    ELSE Value(omitted)

\* handle_nullability, had it let every Optional field be None
handle_nullability_OptionalAllowsNone(self, field, value) ==
    IF value = None
    THEN IF self.nullability.allow_none \/ self.nullability.cls = "Optional"
         THEN Value(value)
         ELSE Errors(<<Error("Value is required, and must not be None.",
                             <<>>)>>, field)
    ELSE IF self.nullability.cls = "Required"
    THEN Errors(<<Error("Value is required.", <<>>)>>, field)
    ELSE Value(self.nullability.omitted_value)

\* the "handle nullability" block of run_validators: what it returns for a
\* value that is omitted or None
handle_nullability(self, field, value) ==
    IF value = None
    THEN IF self.nullability.allow_none
         THEN Value(value)
         ELSE Errors(<<Error("Value is required, and must not be None.",
                             <<>>)>>, field)
    ELSE IF self.nullability.cls = "Required"
    THEN Errors(<<Error("Value is required.", <<>>)>>, field)
    ELSE IF self.nullability.cls = "Optional"
    THEN Value(self.nullability.omitted_value)
    ELSE Raise("TypeError")

run_validators(self, field, value, context, today, intermediate_results) ==
    IF HandlesNullability(self, value)
    THEN Outcome(handle_nullability(self, field, value), <<>>)
    ELSE Chain(self, field, 1, value, context, today, intermediate_results, <<>>)

\* ------------------------------------------------------------------------
\* schema.py: the construction-time dependency check
\* ------------------------------------------------------------------------

RemoveAt(seq, i) == SubSeq(seq, 1, i - 1) \o SubSeq(seq, i + 1, Len(seq))

\* the while loop of _check_for_dependency_loops over the ordered dict deps
\* (name -> set of dependencies); TRUE when it returns, FALSE when it raises
\* ValueError
RECURSIVE check_loop(_, _)
check_loop(deps, seen) ==
    IF deps = <<>> THEN TRUE
    ELSE
    LET resolvable == {i \in DOMAIN deps :
                          deps[i][2] = {} \/ deps[i][2] \subseteq seen}
    IN  IF resolvable = {} THEN FALSE
        ELSE
        LET first == CHOOSE i \in resolvable : \A j \in resolvable : i <= j
            seen2 == seen \cup {deps[first][1]}
        IN  IF Cardinality(seen2) = Cardinality(seen) THEN FALSE
            ELSE check_loop(RemoveAt(deps, first), seen2)

\* check_for_dependency_loops, had "self" not been in seen from the start
check_for_dependency_loops_SelfNotSeen(fields) ==
    check_loop([i \in DOMAIN fields |->
                  <<fields[i][1], fields[i][2].depends_on>>], {})

\* the number of iterations the while loop of _check_for_dependency_loops
\* goes through, the one that raises included
RECURSIVE check_iterations(_, _)
check_iterations(deps, seen) ==
    IF deps = <<>> THEN 0
    ELSE
    LET resolvable == {i \in DOMAIN deps :
                          deps[i][2] = {} \/ deps[i][2] \subseteq seen}
    IN  IF resolvable = {} THEN 1
        ELSE
        LET first == CHOOSE i \in resolvable : \A j \in resolvable : i <= j
            seen2 == seen \cup {deps[first][1]}
        IN  IF Cardinality(seen2) = Cardinality(seen) THEN 1
            ELSE 1 + check_iterations(RemoveAt(deps, first), seen2)

check_for_dependency_loops(fields) ==
    check_loop([i \in DOMAIN fields |->
                  <<fields[i][1], fields[i][2].depends_on>>], {"self"})

\* ------------------------------------------------------------------------
\* schema.py: fields defined from the annotations of the class
\* ------------------------------------------------------------------------

\* an annotation that is a plain type: int, str, bool, datetime.datetime,
\* float, NoneType
TypeAnnotation(name) == [cls |-> "type", name |-> name]

\* typing.Union[args]; Optional[t] is Union[t, None]
UnionAnnotation(args) == [cls |-> "Union", args |-> args]

\* typing.List[args]; the bare List has no args
ListAnnotation(args) == [cls |-> "List", args |-> args]

NoneType == TypeAnnotation("NoneType")

\* field.py: the field datetimefield, strfield being its parent
datetimefield ==
    field_decorator(datetimefield_func, <<strfield>>, <<>>, None, noop,
                    Required(FALSE))

\* field.py FIELD_TYPE_MAP
FIELD_TYPE_MAP ==
    <<<<TypeAnnotation("int"), intfield>>,
      <<TypeAnnotation("str"), strfield>>,
      <<TypeAnnotation("bool"), boolfield>>,
      <<TypeAnnotation("datetime"), datetimefield>>>>

\* _field_def_from_annotation(annotation): the field, or the TypeError
RECURSIVE field_def_from_annotation(_)
field_def_from_annotation(annotation) ==
    IF annotation \in DictKeys(FIELD_TYPE_MAP)
    THEN field_decorator(DictGet(FIELD_TYPE_MAP, annotation), <<>>, <<>>,
                         None, noop, Required(FALSE))
    ELSE IF annotation.cls = "Union"
    THEN LET union_of == annotation.args
             others == SelectSeq(union_of, LAMBDA t : t # NoneType)
         IN  IF ~(/\ Len(union_of) = 2
                  /\ \E i \in DOMAIN union_of : union_of[i] = NoneType)
             THEN Raise("TypeError")
             ELSE IF others[1] \in DictKeys(FIELD_TYPE_MAP)
             THEN field_decorator(DictGet(FIELD_TYPE_MAP, others[1]), <<>>,
                                  <<>>, None, noop, Optional(TRUE, omitted))
             ELSE Raise("TypeError")
    ELSE IF annotation.cls = "List"
    THEN IF Len(annotation.args) # 1 THEN Raise("TypeError")
         ELSE IF field_def_from_annotation(annotation.args[1]).cls = "Raise"
         THEN field_def_from_annotation(annotation.args[1])
         ELSE field_decorator(
                  listfield(field_def_from_annotation(annotation.args[1])),
                  <<>>, <<>>, None, noop, Required(FALSE))
    ELSE Raise("TypeError")

\* the autodef loop of schema() from annotation i on: every annotated
\* attribute that is no field yet gets the field of its annotation; the
\* dict of the enlarged fields, or the TypeError of an annotation
RECURSIVE autodef(_, _, _)
autodef(fields, annotations, i) ==
    IF i > Len(annotations) THEN [cls |-> "dict", v |-> fields]
    ELSE IF annotations[i][1] \in DictKeys(fields)
    THEN autodef(fields, annotations, i + 1)
    ELSE IF field_def_from_annotation(annotations[i][2]).cls = "Raise"
    THEN field_def_from_annotation(annotations[i][2])
    ELSE autodef(Append(fields,
                        <<annotations[i][1],
                          field_def_from_annotation(annotations[i][2])>>),
                 annotations, i + 1)

\* ------------------------------------------------------------------------
\* schema_definition.py: clean
\* ------------------------------------------------------------------------

PyDict(items) == [cls |-> "dict", v |-> items]

\* an object whose attributes are the given mapping
PyObject(attrs) == [cls |-> "object", v |-> attrs]

\* getter(dict_or_obj, field_name, default); the branch for objects has no
\* return statement, so it returns None
getter(dict_or_obj, field_name, default) ==
    IF dict_or_obj.cls = "dict"
    THEN IF field_name \in DOMAIN dict_or_obj.v
         THEN dict_or_obj.v[field_name]
         ELSE default
    ELSE None

\* the loop over accepts, from alias i on: the first value that is not
\* omitted, or the last one looked up
RECURSIVE accepts_loop(_, _, _)
accepts_loop(data, accepts, i) ==
    LET value == getter(data, accepts[i], omitted)
    IN  IF value # omitted \/ i = Len(accepts) THEN value
        ELSE accepts_loop(data, accepts, i + 1)

\* the raw input of a field: what the loop over accepts found, the
\* assertion "value is not empty" failing when the data holds the sentinel
\* empty
raw_value(data, accepts, i) ==
    IF accepts_loop(data, accepts, i) = empty
    THEN Raise("AssertionError")
    ELSE accepts_loop(data, accepts, i)

\* a field of the delayed list or of the schema is ready at the start
ReadyAtStart(f, results) ==
    f.depends_on = {} \/ f.depends_on \subseteq DictKeys(results)

\* clean up to the while loop: results, eval_queue and delayed_eval
clean_start(field_defs) ==
    LET results == <<<<"self", Value(None)>>>>
    IN  [results |-> results,
         eval_queue |-> SelectSeq(field_defs,
                           LAMBDA nf : ReadyAtStart(nf[2], results)),
         delayed_eval |-> SelectSeq(field_defs,
                           LAMBDA nf : ~ReadyAtStart(nf[2], results))]

\* Promotable, had it promoted a field as soon as its dependencies have a
\* result of any kind
Promotable_AnyResult(name, f, results, queued_fields) ==
    /\ name \notin DictKeys(results)
    /\ name \notin queued_fields
    /\ \A dep \in f.depends_on : dep \in DictKeys(results)

\* Promotable, had it not looked at the fields already queued
Promotable_IgnoresQueue(name, f, results, queued_fields) ==
    /\ name \notin DictKeys(results)
    /\ \A dep \in f.depends_on :
          /\ dep \in DictKeys(results)
          /\ DictGet(results, dep).cls = "Value"

\* Promotable, had the scan of the delayed fields not skipped the fields that
\* already have a result
Promotable_IgnoresResults(name, f, results, queued_fields) ==
    /\ name \notin queued_fields
    /\ \A dep \in f.depends_on :
          /\ dep \in DictKeys(results)
          /\ DictGet(results, dep).cls = "Value"

\* the condition under which a delayed field is appended to eval_queue
Promotable(name, f, results, queued_fields) ==
    /\ name \notin DictKeys(results)
    /\ name \notin queued_fields
    /\ \A dep \in f.depends_on :
          /\ dep \in DictKeys(results)
          /\ DictGet(results, dep).cls = "Value"

\* the end of one iteration of the while loop of clean, out being what
\* run_validators gave for the popped field: the result is stored and the
\* delayed fields are scanned for promotion, unless an exception was raised
clean_iteration_store(st, rest, field_name, value, out) ==
    LET results == DictSet(st.results, field_name, out.result)
        queued_fields == {rest[i][1] : i \in DOMAIN rest}
    IN  IF out.result.cls = "Raise"
        THEN [raised |-> TRUE, exc |-> out.result, field_name |-> field_name,
              value |-> value, calls |-> out.calls,
              results |-> st.results, eval_queue |-> rest,
              delayed_eval |-> st.delayed_eval]
        ELSE [raised |-> FALSE, exc |-> None, field_name |-> field_name,
              value |-> value, calls |-> out.calls,
              results |-> results,
              eval_queue |-> rest \o SelectSeq(st.delayed_eval,
                  LAMBDA nf : Promotable(nf[1], nf[2], results,
                                         queued_fields)),
              delayed_eval |-> st.delayed_eval]

\* clean_iteration, had it taken the field that has been queued the longest
clean_iteration_PopsFirst(st, data, context, today) ==
    LET popped == st.eval_queue[1]
        rest == SubSeq(st.eval_queue, 2, Len(st.eval_queue))
        field_name == popped[1]
        field_def == popped[2]
        accepts == IF field_def.accepts # <<>> THEN field_def.accepts
                   ELSE <<field_name>>
        value == raw_value(data, accepts, 1)
    IN  clean_iteration_store(
            st, rest, field_name, value,
            IF value = Raise("AssertionError") THEN Outcome(value, <<>>)
            ELSE run_validators(field_def, <<PyStr(field_name)>>, value,
                                context, today, st.results))

\* one iteration of the while loop of clean
clean_iteration(st, data, context, today) ==
    LET popped == st.eval_queue[Len(st.eval_queue)]
        rest == SubSeq(st.eval_queue, 1, Len(st.eval_queue) - 1)
        field_name == popped[1]
        field_def == popped[2]
        accepts == IF field_def.accepts # <<>> THEN field_def.accepts
                   ELSE <<field_name>>
        value == raw_value(data, accepts, 1)
    IN  clean_iteration_store(
            st, rest, field_name, value,
            IF value = Raise("AssertionError") THEN Outcome(value, <<>>)
            ELSE run_validators(field_def, <<PyStr(field_name)>>, value,
                                context, today, st.results))

\* clean_return, had it listed the errors in the order of the fields of the
\* schema
clean_return_DeclarationOrder(field_defs, results) ==
    LET failed == SelectSeq(field_defs,
                     LAMBDA nf : /\ nf[1] \in DictKeys(results)
                                 /\ DictGet(results, nf[1]).cls # "Value")
        errors == Flat([i \in DOMAIN failed |->
                          flatten(DictGet(results, failed[i][1]))])
        valid == SelectSeq(results,
                    LAMBDA kv : kv[2].cls = "Value" /\ kv[1] # "self")
        validated_values == [i \in DOMAIN valid |->
                                <<valid[i][1], valid[i][2].value>>]
    IN  IF errors # <<>> THEN ValidationError(errors)
        ELSE IF DictKeys(validated_values) # DictKeys(field_defs)
        THEN Raise("AssertionError")
        ELSE PyDict(validated_values)

\* clean_return, had it reported every field without a result as an error
\* of its own
clean_return_ReportsSkipped(field_defs, results) ==
    LET failed == SelectSeq(results, LAMBDA kv : kv[2].cls # "Value")
        missing == SelectSeq(field_defs,
                      LAMBDA nf : nf[1] \notin DictKeys(results))
        errors == Flat([i \in DOMAIN failed |-> flatten(failed[i][2])])
                  \o [i \in DOMAIN missing |->
                        Error("Dependency failed.", <<PyStr(missing[i][1])>>)]
        valid == SelectSeq(results,
                    LAMBDA kv : kv[2].cls = "Value" /\ kv[1] # "self")
        validated_values == [i \in DOMAIN valid |->
                                <<valid[i][1], valid[i][2].value>>]
    IN  IF errors # <<>> THEN ValidationError(errors)
        ELSE IF DictKeys(validated_values) # DictKeys(field_defs)
        THEN Raise("AssertionError")
        ELSE PyDict(validated_values)

\* clean after the while loop: the ValidationError, the validated values,
\* or the AssertionError of the final key-set assertion
clean_return(field_defs, results) ==
    LET failed == SelectSeq(results, LAMBDA kv : kv[2].cls # "Value")
        errors == Flat([i \in DOMAIN failed |-> flatten(failed[i][2])])
        valid == SelectSeq(results,
                    LAMBDA kv : kv[2].cls = "Value" /\ kv[1] # "self")
        validated_values == [i \in DOMAIN valid |->
                                <<valid[i][1], valid[i][2].value>>]
    IN  IF errors # <<>> THEN ValidationError(errors)
        ELSE IF DictKeys(validated_values) # DictKeys(field_defs)
        THEN Raise("AssertionError")
        ELSE PyDict(validated_values)

\* the while loop of clean after the iteration it: an exception leaves
\* clean, otherwise the loop goes on from the state the iteration left
RECURSIVE clean_loop(_, _, _, _, _, _)
clean_next(it, field_defs, data, context, today, calls) ==
    IF it.raised THEN Outcome(it.exc, calls \o it.calls)
    ELSE clean_loop([results |-> it.results,
                     eval_queue |-> it.eval_queue,
                     delayed_eval |-> it.delayed_eval],
                    field_defs, data, context, today, calls \o it.calls)

\* the while loop of clean, from the state st on, and what follows it
clean_loop(st, field_defs, data, context, today, calls) ==
    IF st.eval_queue = <<>>
    THEN Outcome(clean_return(field_defs, st.results), calls)
    ELSE clean_next(clean_iteration(st, data, context, today),
                    field_defs, data, context, today, calls)

\* clean(schema_definition, data, context), run to its end: what it returns
\* or raises, and the validator calls it made
clean(field_defs, data, context, today) ==
    clean_loop(clean_start(field_defs), field_defs, data, context, today,
               <<>>)

\* func(arg), the call of a function with one positional argument: the
\* argument is bound to the first parameter, which is the parameter without
\* a default when there is one (of the parameters of the model only context
\* can have a default, and a parameter with a default follows those
\* without); TypeError when func takes no argument or needs more than one
CallPositional(func, arg, today) ==
    LET required == {p \in func.params :
                        ~(p = "context" /\ func.context_default # NoDefault)}
    IN  IF func.params = {} \/ Cardinality(required) > 1
        THEN Raise("TypeError")
        ELSE Call(func,
                  [p \in func.params |->
                      IF p \in required \/ Cardinality(func.params) = 1
                      THEN arg ELSE func.context_default],
                  today).result

\* the key of the field in the output of serialize
serialize_key(field_name, field_def) ==
    IF field_def.serialize_to \notin {None, PyStr("")}
    THEN field_def.serialize_to.v ELSE field_name

\* serialize_items, had it written the validated values as they are
RECURSIVE serialize_items_NoSerializeFunc(_, _, _, _, _)
serialize_items_NoSerializeFunc(field_defs, data, i, result, today) ==
    IF i > Len(field_defs) THEN [cls |-> "dict", v |-> result]
    ELSE serialize_items_NoSerializeFunc(field_defs, data, i + 1,
             DictSet(result, serialize_key(field_defs[i][1], field_defs[i][2]),
                     DictGet(data, field_defs[i][1])),
             today)

\* the dict comprehension of serialize after serialize_func was called for
\* field i and gave value: an exception of serialize_func leaves serialize,
\* otherwise the value is written under the key; a key written twice keeps
\* its position and takes the later value
RECURSIVE serialize_items(_, _, _, _, _)
serialize_store(field_defs, data, i, result, today, key, value) ==
    IF value.cls = "Raise" THEN value
    ELSE serialize_items(field_defs, data, i + 1,
                         DictSet(result, key, value), today)

\* the dict comprehension of serialize, from field i on: the dict, or the
\* exception serialize_func raised
serialize_items(field_defs, data, i, result, today) ==
    IF i > Len(field_defs) THEN [cls |-> "dict", v |-> result]
    ELSE serialize_store(
             field_defs, data, i, result, today,
             serialize_key(field_defs[i][1], field_defs[i][2]),
             CallPositional(field_defs[i][2].serialize_func,
                            DictGet(data, field_defs[i][1]), today))

\* the filter of serialize on what the dict comprehension gave
serialize_filter(items) ==
    IF items.cls = "Raise" THEN items
    ELSE [cls |-> "dict",
          v |-> SelectSeq(items.v, LAMBDA kv : kv[2].cls # omitted.cls)]

\* schema_definition.py serialize(schema_definition, data)
serialize(field_defs, data, today) ==
    serialize_filter(serialize_items(field_defs, data, 1, <<>>, today))

\* schema.py SchemaCls._chausie__serialize, data being the attributes of the
\* instance
chausie__serialize(field_defs, data, today) ==
    serialize_items(field_defs, data, 1, <<>>, today)

\* ------------------------------------------------------------------------
\* The schemas, inputs and contexts the model is run on
\* ------------------------------------------------------------------------

Names == <<"a", "b", "c", "d", "e">>

\* a caller-supplied context object
Context == [cls |-> "Context", v |-> "ctx"]

\* one clean call: its data and its context argument
CallArgs(data, context) == [data |-> data, context |-> context]

Scenario(via, fields, calls) ==
    [via |-> via, fields |-> fields, annotations |-> <<>>, calls |-> calls]

\* a class given to the schema decorator with annotated attributes
AnnotatedScenario(fields, annotations, calls) ==
    [via |-> "schema", fields |-> fields, annotations |-> annotations,
     calls |-> calls]

Vias == {"schema", "SchemaDefinition"}

\* @field() applied to a user function
UserField(func, nullability) ==
    field_decorator(func, <<>>, <<>>, None, noop, nullability)

\* the k-th name other than Names[i]
OtherName(i, k) == IF k < i THEN Names[k] ELSE Names[k + 1]

\* a schema of n computed fields a, b, ...: field i is a user function of
\* the other fields picked by choice[i].deps, which returns an error if
\* choice[i].fails and an object otherwise
DependencySchema(n, choice) ==
    [i \in 1..n |->
        <<Names[i],
          UserField(
            IF choice[i].fails
            THEN nope({OtherName(i, k) : k \in choice[i].deps}, NoDefault)
            ELSE make({OtherName(i, k) : k \in choice[i].deps}, NoDefault),
            Required(FALSE))>>]

\* two fields that may also name "self", themselves, or a name that is no
\* field of the schema
ReservedSchema(fa, pa, fb, pb) ==
    <<<<"a", UserField(IF fa THEN nope(pa, NoDefault)
                       ELSE make(pa, NoDefault), Required(FALSE))>>,
      <<"b", UserField(IF fb THEN nope(pb, NoDefault)
                       ELSE make(pb, NoDefault), Required(FALSE))>>>>

\* a class with an attribute named self: a field self, alone or with a
\* field a declared before or after it, either of which may depend on the
\* other
SelfNamedSchema(pself, with_a, pa, self_first) ==
    LET fself == <<"self", UserField(make(pself, NoDefault), Required(FALSE))>>
        fa == <<"a", UserField(make(pa, NoDefault), Required(FALSE))>>
    IN  IF ~with_a THEN <<fself>>
        ELSE IF self_first THEN <<fself, fa>> ELSE <<fa, fself>>

Nullabilities ==
    {Required(FALSE), Required(TRUE), Optional(TRUE, omitted),
     Optional(FALSE, omitted), Optional(TRUE, PyStr("default"))}

\* the inputs of one field: a mapping or an object that has or lacks the
\* name, holding None, a string or an int, or the sentinel empty
Inputs(name) ==
    {PyDict(<<>>), PyObject(<<>>), PyDict([k \in {name} |-> empty])}
    \cup {PyDict([k \in {name} |-> raw]) :
              raw \in {None, PyStr("hi"), PyInt(5)}}
    \cup {PyObject([k \in {name} |-> raw]) :
              raw \in {None, PyStr("hi")}}

\* tests/chausie/test_field.py test_extendable_fields: valuefield, a field
\* of its own with strfield as parent, to be used as a parent
ExtendableField(func) ==
    field_decorator(func, <<strfield>>, <<>>, None, noop, Required(FALSE))

\* the chains of the field under test in the nullability family; the last
\* two have a Field as parent (test_extendable_fields)
NullabilityFields(nullability) ==
    {field_decorator(strfield, <<>>, <<>>, None, noop, nullability),
     field_decorator(None, <<>>, <<>>, None, noop, nullability),
     field_decorator(make({"value"}, NoDefault), <<strfield>>, <<>>, None,
                     noop, nullability),
     field_decorator(nope({"value"}, NoDefault), <<>>, <<>>, None, noop,
                     nullability),
     UserField(make({}, NoDefault), nullability),
     UserField(make({"self"}, NoDefault), nullability),
     UserField(nope({"self"}, NoDefault), nullability),
     field_decorator(make({"self", "value"}, NoDefault),
                     <<ExtendableField(make({"value"}, NoDefault))>>, <<>>,
                     None, noop, nullability),
     field_decorator(make({"self", "value"}, NoDefault),
                     <<ExtendableField(nope({"value"}, NoDefault))>>, <<>>,
                     None, noop, nullability)}

\* a field a of any nullability and chain, and a field b computed from a
NullabilitySchema(fa) ==
    <<<<"a", fa>>,
      <<"b", UserField(make({"a"}, NoDefault), Required(FALSE))>>>>

\* the validators of the field organization in the context family
ContextFunctions ==
    {Function(fn, {"value", "context"}, d) :
        fn \in {"make", "nope"}, d \in {NoDefault, empty, None}}
    \cup {make({"context", "name"}, NoDefault)}

\* tests/chausie/test_schema.py test_context: a string field and a field
\* whose validator, after strfield, declares value and context
ContextSchema(func, nullability, name_first) ==
    LET name == <<"name", field_decorator(strfield, <<>>, <<>>, None, noop,
                                          Required(FALSE))>>
        organization ==
            <<"organization",
              field_decorator(func, <<strfield>>, <<>>, None, noop,
                              nullability)>>
    IN  IF name_first THEN <<name, organization>>
        ELSE <<organization, name>>

ContextInputs ==
    {PyDict([k \in {"name"} \cup ks |-> IF k = "name" THEN name ELSE raw]) :
        ks \in SUBSET {"organization"},
        name \in {PyStr("John"), PyInt(5)},
        raw \in {PyStr("orga_a"), PyInt(5)}}

\* all sequences over S of length at most n
RECURSIVE SeqsUpTo(_, _)
SeqsUpTo(S, n) ==
    IF n = 0 THEN {<<>>}
    ELSE LET shorter == SeqsUpTo(S, n - 1)
         IN  shorter \cup {Append(q, x) : q \in shorter, x \in S}

\* a validator with the parameters value and context
ContextValidator == make({"value", "context"}, NoDefault)

\* the inner fields of the list family: a string, an optional string, a
\* string wrapped into an object, a string that needs the context
ListInnerFields ==
    {field_decorator(strfield, <<>>, <<>>, None, noop, Required(FALSE)),
     field_decorator(strfield, <<>>, <<>>, None, noop,
                     Optional(TRUE, omitted)),
     field_decorator(make({"value"}, NoDefault), <<strfield>>, <<>>, None,
                     noop, Required(FALSE)),
     field_decorator(ContextValidator, <<strfield>>, <<>>, None, noop,
                     Required(FALSE))}

\* tests/chausie/test_field.py TestListField: a list field tags, alone
\* (field(listfield(inner))) or followed by a user validator
\* (test_listfield_chained)
ListSchema(inner, chained) ==
    <<<<"tags",
        IF chained
        THEN field_decorator(make({"value"}, NoDefault), <<listfield(inner)>>,
                             <<>>, None, noop, Required(FALSE))
        ELSE field_decorator(listfield(inner), <<>>, <<>>, None, noop,
                             Required(FALSE))>>>>

ListElements == {PyStr("x"), PyStr("y"), PyInt(5), None}

ListInputs ==
    {PyDict([k \in {"tags"} |-> PyList(elems)]) :
        elems \in SeqsUpTo(ListElements, MaxLen)}
    \cup {PyDict([k \in {"tags"} |-> PyTuple(<<PyStr("y"), PyStr("x")>>)]),
          PyDict([k \in {"tags"} |-> PyStr("x")])}

\* what a nested field is built around: a subclass of Schema, a class built
\* by the schema() decorator, or a SchemaDefinition
InnerSchemaKinds == {"Schema subclass", "SchemaCls", "SchemaDefinition"}

\* the fields of the inner schemas of the nested family
InnerSchemas ==
    {<<<<"a", field_decorator(strfield, <<>>, <<>>, None, noop,
                              Required(FALSE))>>>>,
     <<<<"a", field_decorator(strfield, <<>>, <<>>, None, noop,
                              Required(FALSE))>>,
       <<"b", field_decorator(strfield, <<>>, <<>>, None, noop,
                              Optional(TRUE, omitted))>>>>,
     <<<<"a", field_decorator(ContextValidator, <<strfield>>, <<>>, None,
                              noop, Required(FALSE))>>>>}

\* tests/chausie/test_field.py TestNestedField: a string field and a field
\* holding a nested schema
NestedSchema(inner_schema) ==
    <<<<"name", field_decorator(strfield, <<>>, <<>>, None, noop,
                                Required(FALSE))>>,
      <<"inner", field_decorator(nestedfield(inner_schema), <<>>, <<>>, None,
                                 noop, Required(FALSE))>>>>

NestedPayloads ==
    {PyDict([k \in ks |-> raw[k]]) :
        ks \in SUBSET {"a", "b"},
        raw \in [{"a", "b"} -> {PyStr("x"), PyInt(5)}]}
    \cup {PyStr("x")}

NestedInputs ==
    {PyDict([k \in {"name", "inner"} |->
                IF k = "name" THEN name ELSE payload]) :
        name \in {PyStr("John"), PyInt(5)}, payload \in NestedPayloads}
    \cup {PyDict([k \in {"name"} |-> PyStr("John")])}

\* tests/chausie/test_field.py test_accepts: the aliases of the field a
AcceptsChoices == {<<>>, <<"x">>, <<"x", "y">>, <<"y", "x">>}

\* a field a read under its aliases, passed through as it is
AcceptsSchema(accepts, nullability) ==
    <<<<"a", field_decorator(None, <<>>, accepts, None, noop, nullability)>>>>

\* mappings and objects that have any of the names a, x and y
AcceptsInputs ==
    {[cls |-> cls, v |-> [k \in ks |-> IF k = "x" THEN x ELSE PyStr(k)]] :
        cls \in {"dict", "object"}, ks \in SUBSET {"a", "x", "y"},
        x \in {PyStr("x"), None}}

\* the serialize_func of a field
SerializeFuncs ==
    {noop, make({"value"}, NoDefault), make({"a"}, NoDefault),
     make({}, NoDefault), make({"value", "context"}, NoDefault),
     make({"value", "context"}, empty)}

\* a required string a and an optional string b, a being written under
\* serialize_to by serialize_func
SerializeSchema(serialize_to, serialize_func, nullability) ==
    <<<<"a", field_decorator(strfield, <<>>, <<>>, serialize_to,
                             serialize_func, Required(FALSE))>>,
      <<"b", field_decorator(strfield, <<>>, <<>>, None, noop,
                             nullability)>>>>

SerializeInputs ==
    {PyDict([k \in {"a"} \cup ks |-> IF k = "a" THEN PyStr("hi") ELSE b]) :
        ks \in SUBSET {"b"}, b \in {PyStr("yo"), None, PyInt(5)}}

\* the schemas cleaned by two calls at once: a string a and a field b
\* computed from a (tests/chausie/test_schema.py test_field_dependencies),
\* a being required or optional, and the schema of
\* test_context
SharedSchemas ==
    {<<<<"a", field_decorator(strfield, <<>>, <<>>, None, noop, nullability)>>,
       <<"b", UserField(make({"a"}, NoDefault), Required(FALSE))>>>> :
        nullability \in {Required(FALSE), Optional(TRUE, omitted)}}
    \cup {ContextSchema(ContextValidator, Required(FALSE), TRUE)}

\* the data of one of two calls made at once
SharedInputs ==
    {PyDict(<<>>),
     PyDict([k \in {"a", "name", "organization"} |-> PyStr("hi")]),
     PyDict([k \in {"a", "name", "organization"} |-> PyStr("yo")]),
     PyDict([k \in {"a", "name", "organization"} |->
                IF k = "organization" THEN PyStr("hi") ELSE PyInt(5)])}

\* tests/chausie/test_field.py test_field_self: a field named value whose
\* validator, after strfield, declares self and value
AliasSchema ==
    <<<<"value", field_decorator(make({"self", "value"}, NoDefault),
                                 <<strfield>>, <<>>, None, noop,
                                 Required(FALSE))>>>>

\* the fields b declared next to a string field in the alias family: a
\* string, a string wrapped into an object, a string that needs the context,
\* a list of strings, and a list whose inner field reads the field a
AliasSiblings ==
    {field_decorator(strfield, <<>>, <<>>, None, noop, Required(FALSE)),
     field_decorator(make({"value"}, NoDefault), <<strfield>>, <<>>, None,
                     noop, Required(FALSE)),
     field_decorator(ContextValidator, <<strfield>>, <<>>, None, noop,
                     Required(FALSE)),
     field_decorator(
         listfield(field_decorator(strfield, <<>>, <<>>, None, noop,
                                   Required(FALSE))),
         <<>>, <<>>, None, noop, Required(FALSE)),
     field_decorator(
         listfield(field_decorator(make({"value", "a"}, NoDefault),
                                   <<strfield>>, <<>>, None, noop,
                                   Required(FALSE))),
         <<>>, <<>>, None, noop, Required(FALSE))}

\* a string field named name (value, context or a) and a field b, in either
\* order
AliasPairSchema(name, fb, name_first) ==
    LET named == <<name, field_decorator(strfield, <<>>, <<>>, None, noop,
                                         Required(FALSE))>>
        b == <<"b", fb>>
    IN  IF name_first THEN <<named, b>> ELSE <<b, named>>

AliasSchemas ==
    {AliasSchema}
    \cup {AliasPairSchema(name, fb, name_first) :
            name \in {"value", "context", "a"}, fb \in AliasSiblings,
            name_first \in BOOLEAN}

AliasInputs ==
    {PyDict([k \in {"value", "context", "a", "b"} |->
                IF k = "b" THEN b ELSE named]) :
        named \in {PyStr("John"), PyInt(5)},
        b \in {PyStr("hi"), PyList(<<PyStr("x"), PyStr("y")>>),
               PyList(<<PyStr("x"), PyInt(5)>>)}}

\* the fields declared in the classes of the annotated family: none, a
\* string a, and a field b computed from a
\* (tests/chausie/test_schema.py test_field_dependencies: a is annotated)
AnnotatedFields ==
    {<<>>,
     <<<<"a", field_decorator(strfield, <<>>, <<>>, None, noop,
                              Optional(TRUE, PyStr("default")))>>>>,
     <<<<"b", UserField(make({"a"}, NoDefault), Required(FALSE))>>>>}

\* the annotations of the classes of the annotated family
AnnotationLists ==
    {<<<<"a", TypeAnnotation("str")>>>>,
     <<<<"n", TypeAnnotation("int")>>>>,
     <<<<"a", TypeAnnotation("str")>>, <<"n", TypeAnnotation("int")>>>>,
     <<<<"n", TypeAnnotation("int")>>,
       <<"a", UnionAnnotation(<<TypeAnnotation("str"), NoneType>>)>>>>,
     <<<<"a", ListAnnotation(<<TypeAnnotation("str")>>)>>>>,
     <<<<"a", ListAnnotation(
                 <<UnionAnnotation(<<NoneType, TypeAnnotation("int")>>)>>)>>>>,
     <<<<"a", TypeAnnotation("bool")>>>>,
     <<<<"a", TypeAnnotation("datetime")>>>>,
     <<<<"n", TypeAnnotation("int")>>, <<"a", TypeAnnotation("float")>>>>,
     <<<<"a", UnionAnnotation(<<TypeAnnotation("int"),
                               TypeAnnotation("str")>>)>>>>,
     <<<<"a", UnionAnnotation(<<ListAnnotation(<<TypeAnnotation("str")>>),
                               NoneType>>)>>>>,
     <<<<"a", ListAnnotation(<<>>)>>>>,
     <<<<"a", ListAnnotation(<<TypeAnnotation("float")>>)>>>>}

AnnotatedInputs ==
    {PyDict(<<>>)}
    \cup {PyDict([k \in {"a", "n"} |-> IF k = "a" THEN a ELSE n]) :
            a \in {PyStr("hi"), PyStr("5"), PyStr("2020-01-01"), PyInt(5),
                   PyBool(TRUE), None,
                   PyList(<<PyStr("x"), None, PyStr("42")>>)},
            n \in {PyInt(5), PyStr("42"), PyStr("hi"), PyBool(TRUE), None}}

\* the data of the calls of the repeated family, made on a class with the
\* annotation a: datetime
RepeatedInputs ==
    {PyDict([k \in {"a"} |-> PyStr(a)]) : a \in {"5", "2020-01-01", "hi"}}

\* the dates on which the calls of the model run
FirstDate == Date("2026", "10", "30")

LaterDate == Date("2026", "11", "15")

Clocks == {FirstDate, LaterDate}

\* some validator of the field, or of a field inside it, is datetimefield,
\* which reads the date
RECURSIVE FieldReadsClock(_)
FieldReadsClock(f) ==
    \/ f.serialize_func.fn = "datetimefield"
    \/ \E i \in DOMAIN f.validators :
          \/ f.validators[i].fn = "datetimefield"
          \/ /\ f.validators[i].fn = "listfield"
             /\ FieldReadsClock(f.validators[i].inner_field)
          \/ /\ f.validators[i].fn = "nestedfield"
             /\ \E k \in DOMAIN f.validators[i].inner_schema.fields :
                   FieldReadsClock(f.validators[i].inner_schema.fields[k][2])

\* the dates a call of the scenario may run on: a call on a schema no field
\* of which reads the date gives the same on every date, and is run on one
ClocksOf(sc) ==
    IF /\ autodef(sc.fields, sc.annotations, 1).cls = "dict"
       /\ \E k \in DOMAIN autodef(sc.fields, sc.annotations, 1).v :
             FieldReadsClock(autodef(sc.fields, sc.annotations, 1).v[k][2])
    THEN Clocks
    ELSE {FirstDate}

\* ------------------------------------------------------------------------
\* State
\* ------------------------------------------------------------------------

VARIABLES
    schema_via,     \* how the schema is built: the schema() decorator of
                    \* schema.py or SchemaDefinition(fields=...)
    schema_fields,  \* the ordered dict name -> Field of the schema
    schema_annotations,
                    \* the ordered dict name -> annotation of the class
    schema_status,  \* "declared", "constructed", "raised" (the ValueError
                    \* of the dependency check) or "type_error" (the
                    \* TypeError of an annotation)
    call_data,      \* per clean call: the data argument
    call_context,   \* per clean call: the context argument
    call_now,       \* per clean call: the date datetime.now() gives while
                    \* the call runs
    pc,             \* per clean call: "idle", "loop", "returned", "raised"
    results,        \* per clean call: the ordered dict results
    eval_queue,     \* per clean call: the list eval_queue
    delayed_eval,   \* per clean call: the list delayed_eval
    returned,       \* per clean call: what the call returned or raised
    evaluated,      \* per clean call: the fields popped so far, with the
                    \* raw value each was given, in order
    calls_log,      \* per clean call: the validator calls made so far
    serialized,     \* per clean call: what serialize made of the validated
                    \* values, None before
    overlapped      \* per clean call: an iteration of its while loop ran
                    \* while another call was inside its own while loop

vars == <<schema_via, schema_fields, schema_annotations, schema_status,
          call_data, call_context, call_now,
          pc, results, eval_queue, delayed_eval, returned, evaluated,
          calls_log, serialized, overlapped>>

schema_vars == <<schema_via, schema_fields, schema_annotations, schema_status>>

CallIds == DOMAIN pc

\* the state before the schema is built and clean is called
Start(sc) ==
    /\ schema_via = sc.via
    /\ schema_fields = sc.fields
    /\ schema_annotations = sc.annotations
    /\ schema_status = "declared"
    /\ call_data = [c \in DOMAIN sc.calls |-> sc.calls[c].data]
    /\ call_context = [c \in DOMAIN sc.calls |-> sc.calls[c].context]
    /\ call_now \in [DOMAIN sc.calls -> ClocksOf(sc)]
    /\ pc = [c \in DOMAIN sc.calls |-> "idle"]
    /\ results = [c \in DOMAIN sc.calls |-> <<>>]
    /\ eval_queue = [c \in DOMAIN sc.calls |-> <<>>]
    /\ delayed_eval = [c \in DOMAIN sc.calls |-> <<>>]
    /\ returned = [c \in DOMAIN sc.calls |-> None]
    /\ evaluated = [c \in DOMAIN sc.calls |-> <<>>]
    /\ calls_log = [c \in DOMAIN sc.calls |-> <<>>]
    /\ serialized = [c \in DOMAIN sc.calls |-> None]
    /\ overlapped = [c \in DOMAIN sc.calls |-> FALSE]

InitDependency ==
    \E via \in Vias, n \in 1..MaxFields :
        \E choice \in [1..n -> [deps : SUBSET (1..(n - 1)), fails : BOOLEAN]] :
            Start(Scenario(via, DependencySchema(n, choice),
                           <<CallArgs(PyDict(<<>>), Context)>>))

InitReserved ==
    \E via \in Vias, fa \in BOOLEAN, fb \in BOOLEAN,
       pa \in SUBSET {"self", "zz", "b"}, pb \in SUBSET {"self", "a", "b"} :
        Start(Scenario(via, ReservedSchema(fa, pa, fb, pb),
                       <<CallArgs(PyDict(<<>>), Context)>>))

\* classes with an attribute named self, given to the schema decorator
InitSelfNamed ==
    \E pself \in SUBSET {"a"}, with_a \in BOOLEAN,
       pa \in SUBSET {"self"}, self_first \in BOOLEAN :
        /\ (~with_a => pself = {} /\ pa = {} /\ self_first)
        /\ Start(Scenario("schema",
                          SelfNamedSchema(pself, with_a, pa, self_first),
                          <<CallArgs(PyDict(<<>>), Context)>>))

InitNullability ==
    \E via \in Vias, data \in Inputs("a"), nullability \in Nullabilities :
        \E fa \in NullabilityFields(nullability) :
            Start(Scenario(via, NullabilitySchema(fa),
                           <<CallArgs(data, empty)>>))

InitContext ==
    \E via \in Vias, func \in ContextFunctions,
       nullability \in {Required(FALSE), Optional(TRUE, omitted)},
       data \in ContextInputs, context \in {empty, Context},
       name_first \in BOOLEAN :
        Start(Scenario(via, ContextSchema(func, nullability, name_first),
                       <<CallArgs(data, context)>>))

InitList ==
    \E via \in Vias, inner \in ListInnerFields, chained \in BOOLEAN,
       data \in ListInputs, context \in {empty, Context} :
        Start(Scenario(via, ListSchema(inner, chained),
                       <<CallArgs(data, context)>>))

InitNested ==
    \E via \in Vias, kind \in InnerSchemaKinds, fields \in InnerSchemas,
       data \in NestedInputs, context \in {empty, Context} :
        Start(Scenario(via,
                       NestedSchema([cls |-> kind, fields |-> fields]),
                       <<CallArgs(data, context)>>))

InitAccepts ==
    \E via \in Vias, accepts \in AcceptsChoices, data \in AcceptsInputs,
       nullability \in {Required(TRUE), Optional(TRUE, omitted)} :
        Start(Scenario(via, AcceptsSchema(accepts, nullability),
                       <<CallArgs(data, empty)>>))

InitSerialize ==
    \E via \in Vias,
       serialize_to \in {None, PyStr("A"), PyStr("b"), PyStr("")},
       serialize_func \in SerializeFuncs, data \in SerializeInputs,
       nullability \in {Optional(TRUE, omitted), Optional(FALSE, omitted),
                        Optional(TRUE, PyStr("default"))} :
        Start(Scenario(via,
                       SerializeSchema(serialize_to, serialize_func,
                                       nullability),
                       <<CallArgs(data, empty)>>))

InitShared ==
    \E via \in Vias, fields \in SharedSchemas,
       first \in SharedInputs, second \in SharedInputs,
       context \in {empty, Context}, other \in {empty, Context} :
        Start(Scenario(via, fields,
                       <<CallArgs(first, context), CallArgs(second, other)>>))

InitAlias ==
    \E via \in Vias, fields \in AliasSchemas, data \in AliasInputs,
       context \in {empty, Context} :
        Start(Scenario(via, fields, <<CallArgs(data, context)>>))

InitAnnotated ==
    \E fields \in AnnotatedFields, annotations \in AnnotationLists,
       data \in AnnotatedInputs :
        Start(AnnotatedScenario(fields, annotations,
                                <<CallArgs(data, empty)>>))

InitRepeated ==
    \E data \in RepeatedInputs :
        Start(AnnotatedScenario(
                  <<>>, <<<<"a", TypeAnnotation("datetime")>>>>,
                  <<CallArgs(data, empty), CallArgs(data, empty)>>))

Init ==
    \/ InitDependency
    \/ InitReserved
    \/ InitSelfNamed
    \/ InitNullability
    \/ InitContext
    \/ InitList
    \/ InitNested
    \/ InitAccepts
    \/ InitSerialize
    \/ InitShared
    \/ InitAlias
    \/ InitAnnotated
    \/ InitRepeated

call_vars == <<call_data, call_context, call_now, pc, results, eval_queue,
               delayed_eval, returned, evaluated, calls_log, serialized,
               overlapped>>

\* schema.py schema(cls): the class decorator defines a field for every
\* annotated attribute that has none, checks the dependencies of the
\* enlarged fields and builds the class with them
SchemaDecorator ==
    /\ schema_via = "schema"
    /\ schema_status = "declared"
    /\ IF autodef(schema_fields, schema_annotations, 1).cls = "Raise"
       THEN /\ schema_status' = "type_error"
            /\ UNCHANGED schema_fields
       ELSE /\ schema_fields' =
                  autodef(schema_fields, schema_annotations, 1).v
            /\ schema_status' =
                  IF check_for_dependency_loops(
                         autodef(schema_fields, schema_annotations, 1).v)
                  THEN "constructed" ELSE "raised"
    /\ UNCHANGED <<schema_via, schema_annotations, call_vars>>

\* schema_definition.py SchemaDefinition(fields=...): an attrs class
\* without validators
SchemaDefinition ==
    /\ schema_via = "SchemaDefinition"
    /\ schema_status = "declared"
    /\ schema_status' = "constructed"
    /\ UNCHANGED <<schema_via, schema_fields, schema_annotations, call_vars>>

\* clean, up to the while loop
CleanStart(c) ==
    /\ schema_status = "constructed"
    /\ pc[c] = "idle"
    /\ LET st == clean_start(schema_fields)
       IN  /\ results' = [results EXCEPT ![c] = st.results]
           /\ eval_queue' = [eval_queue EXCEPT ![c] = st.eval_queue]
           /\ delayed_eval' = [delayed_eval EXCEPT ![c] = st.delayed_eval]
    /\ pc' = [pc EXCEPT ![c] = "loop"]
    /\ UNCHANGED <<schema_vars, call_data, call_context, call_now, returned,
                   evaluated, calls_log, serialized, overlapped>>

\* call k has gone through some iterations of its while loop and has more
\* to go through
InsideLoop(k) ==
    pc[k] = "loop" /\ evaluated[k] # <<>> /\ eval_queue[k] # <<>>

\* CleanLoop, had the calls that are in their while loop stored their
\* results in one map
CleanLoop_SharedResults(c) ==
    /\ pc[c] = "loop"
    /\ eval_queue[c] # <<>>
    /\ LET st == clean_iteration(
                    [results |-> results[c], eval_queue |-> eval_queue[c],
                     delayed_eval |-> delayed_eval[c]],
                    call_data[c], call_context[c], call_now[c])
       IN  /\ results' = [k \in CallIds |->
                            IF pc[k] = "loop" THEN st.results ELSE results[k]]
           /\ eval_queue' = [eval_queue EXCEPT ![c] = st.eval_queue]
           /\ delayed_eval' = [delayed_eval EXCEPT ![c] = st.delayed_eval]
           /\ evaluated' = [evaluated EXCEPT ![c] =
                                Append(@, <<st.field_name, st.value>>)]
           /\ calls_log' = [calls_log EXCEPT ![c] = @ \o st.calls]
           /\ pc' = [pc EXCEPT ![c] = IF st.raised THEN "raised" ELSE "loop"]
           /\ returned' = [returned EXCEPT ![c] =
                                IF st.raised THEN st.exc ELSE @]
    /\ overlapped' = [overlapped EXCEPT ![c] = @ \/ \E k \in CallIds \ {c} :
                                                    InsideLoop(k)]
    /\ UNCHANGED <<schema_vars, call_data, call_context, call_now, serialized>>

\* one iteration of the while loop of clean
CleanLoop(c) ==
    /\ pc[c] = "loop"
    /\ eval_queue[c] # <<>>
    /\ LET st == clean_iteration(
                    [results |-> results[c], eval_queue |-> eval_queue[c],
                     delayed_eval |-> delayed_eval[c]],
                    call_data[c], call_context[c], call_now[c])
       IN  /\ results' = [results EXCEPT ![c] = st.results]
           /\ eval_queue' = [eval_queue EXCEPT ![c] = st.eval_queue]
           /\ delayed_eval' = [delayed_eval EXCEPT ![c] = st.delayed_eval]
           /\ evaluated' = [evaluated EXCEPT ![c] =
                                Append(@, <<st.field_name, st.value>>)]
           /\ calls_log' = [calls_log EXCEPT ![c] = @ \o st.calls]
           /\ pc' = [pc EXCEPT ![c] = IF st.raised THEN "raised" ELSE "loop"]
           /\ returned' = [returned EXCEPT ![c] =
                                IF st.raised THEN st.exc ELSE @]
    /\ overlapped' = [overlapped EXCEPT ![c] = @ \/ \E k \in CallIds \ {c} :
                                                    InsideLoop(k)]
    /\ UNCHANGED <<schema_vars, call_data, call_context, call_now, serialized>>

\* clean, after the while loop
CleanReturn(c) ==
    /\ pc[c] = "loop"
    /\ eval_queue[c] = <<>>
    /\ LET ret == clean_return(schema_fields, results[c])
       IN  /\ returned' = [returned EXCEPT ![c] = ret]
           /\ pc' = [pc EXCEPT ![c] =
                        IF ret.cls = "Raise" THEN "raised" ELSE "returned"]
    /\ UNCHANGED <<schema_vars, call_data, call_context, call_now, results,
                   eval_queue, delayed_eval, evaluated, calls_log,
                   serialized, overlapped>>

\* serialize of the validated values clean returned: serialize(schema) of
\* schema.py on the instance, or serialize of schema_definition.py on the
\* record
Serialize(c) ==
    /\ pc[c] = "returned"
    /\ returned[c].cls = "dict"
    /\ serialized[c] = None
    /\ serialized' = [serialized EXCEPT ![c] =
            IF schema_via = "schema"
            THEN chausie__serialize(schema_fields, returned[c].v,
                                    call_now[c])
            ELSE serialize(schema_fields, returned[c].v, call_now[c])]
    /\ UNCHANGED <<schema_vars, call_data, call_context, call_now, pc, results,
                   eval_queue, delayed_eval, returned, evaluated, calls_log,
                   overlapped>>

Next ==
    \/ SchemaDecorator
    \/ SchemaDefinition
    \/ \E c \in CallIds : CleanStart(c)
    \/ \E c \in CallIds : CleanLoop(c)
    \/ \E c \in CallIds : CleanReturn(c)
    \/ \E c \in CallIds : Serialize(c)

Spec == Init /\ [][Next]_vars

\* ------------------------------------------------------------------------
\* Vocabulary of the properties
\* ------------------------------------------------------------------------

FieldNames == DictKeys(schema_fields)

FieldOf(name) == DictGet(schema_fields, name)

\* the names of the fields popped so far by call c
EvaluatedNames(c) == {evaluated[c][i][1] : i \in DOMAIN evaluated[c]}

HasValue(c, name) ==
    name \in DictKeys(results[c]) /\ DictGet(results[c], name).cls = "Value"

HasErrors(c, name) ==
    name \in DictKeys(results[c]) /\ DictGet(results[c], name).cls = "Errors"

\* the names reachable from the given names along depends_on in k steps
RECURSIVE Reach(_, _)
Reach(names, k) ==
    IF k = 0 THEN names
    ELSE Reach(names \cup UNION {FieldOf(n).depends_on :
                                    n \in names \cap FieldNames}, k - 1)

\* the direct and transitive dependencies of a field
TransitiveDeps(name) ==
    Reach(FieldOf(name).depends_on, Cardinality(FieldNames))

\* the last field popped by call c
LastEvaluated(c) == evaluated[c][Len(evaluated[c])][1]

\* ------------------------------------------------------------------------
\* Properties
\* ------------------------------------------------------------------------

\* C1: whenever a clean call starts evaluating a field, every name in the
\* field's depends_on already holds a Value in the results of that call, and
\* no field that has been evaluated has a direct or transitive dependency
\* whose result is an Errors.
C1_DependenciesHoldValue ==
    [][\A c \in CallIds :
        /\ Len(evaluated'[c]) > Len(evaluated[c]) =>
              \A dep \in FieldOf(LastEvaluated(c)').depends_on :
                  HasValue(c, dep)
        /\ \A n \in EvaluatedNames(c)' :
              \A dep \in TransitiveDeps(n) : ~HasErrors(c, dep)']_vars

\* C1 witness: a call has returned after evaluating a field that has a
\* dependency on another field, and left unevaluated a field whose
\* dependency failed.
C1_Witness ==
    \E c \in CallIds :
        /\ pc[c] = "returned"
        /\ \E n \in EvaluatedNames(c) :
              FieldOf(n).depends_on \cap FieldNames # {}
        /\ \E n \in FieldNames \ EvaluatedNames(c) :
              \E dep \in TransitiveDeps(n) : HasErrors(c, dep)

NoDuplicates(seq) ==
    \A i, j \in DOMAIN seq : seq[i] = seq[j] => i = j

QueuedNames(c) == [i \in DOMAIN eval_queue[c] |-> eval_queue[c][i][1]]

\* C2: in every clean call no field is in the ready queue twice, no queued
\* field already has a result or was already evaluated, no field is
\* evaluated twice, and no validator of a schema field is called twice.
C2_EvaluatedAtMostOnce ==
    \A c \in CallIds :
        /\ NoDuplicates(QueuedNames(c))
        /\ \A i \in DOMAIN eval_queue[c] :
              /\ QueuedNames(c)[i] \notin DictKeys(results[c])
              /\ QueuedNames(c)[i] \notin EvaluatedNames(c)
        /\ NoDuplicates([i \in DOMAIN evaluated[c] |-> evaluated[c][i][1]])
        /\ NoDuplicates([i \in DOMAIN calls_log[c] |->
                            <<calls_log[c][i].field, calls_log[c][i].index>>])

\* C2 witness: two delayed fields were promoted by the same evaluation; one
\* of them has been evaluated since, while the other is still queued and was
\* scanned again.
C2_Witness ==
    \E c \in CallIds :
        \E i, j \in DOMAIN delayed_eval[c] :
            /\ delayed_eval[c][i][1] \in DictKeys(results[c])
            /\ \E q \in DOMAIN eval_queue[c] :
                  QueuedNames(c)[q] = delayed_eval[c][j][1]
            /\ FieldOf(delayed_eval[c][j][1]).depends_on
                  \subseteq DictKeys(results[c])
                     \ {delayed_eval[c][i][1]}

\* a transitive dependency of the field has failed in call c
HasFailedDependency(c, name) ==
    \E dep \in TransitiveDeps(name) : HasErrors(c, dep)

\* C3: when clean returns, every field all of whose transitive dependencies
\* produced a Value has been evaluated, and every field left unevaluated has
\* a transitive dependency that failed.
C3_MaximalErrorReporting ==
    \A c \in CallIds :
        pc[c] = "returned" =>
            \A n \in FieldNames :
                /\ (\A dep \in TransitiveDeps(n) : HasValue(c, dep))
                      => n \in EvaluatedNames(c)
                /\ n \notin EvaluatedNames(c) => HasFailedDependency(c, n)

\* some field of the schema depends on itself, directly or transitively
HasDependencyCycle == \E n \in FieldNames : n \in TransitiveDeps(n)

\* C4: a schema with a dependency cycle among its fields is never
\* constructed, and no clean call ever starts on it.
C4_CycleFailsConstruction ==
    HasDependencyCycle =>
        /\ schema_status # "constructed"
        /\ \A c \in CallIds : pc[c] = "idle"

\* the fields left unevaluated by call c because a dependency failed
Skipped(c) ==
    {n \in FieldNames \ EvaluatedNames(c) : HasFailedDependency(c, n)}

\* the errors of the fields evaluated from position i on that failed, each
\* under the path of its field
RECURSIVE FailedErrors(_, _)
FailedErrors(c, i) ==
    IF i > Len(evaluated[c]) THEN <<>>
    ELSE (IF HasErrors(c, evaluated[c][i][1])
          THEN flatten(DictGet(results[c], evaluated[c][i][1]))
          ELSE <<>>) \o FailedErrors(c, i + 1)

\* C5: when clean returns having skipped a field because a dependency of it
\* failed, it returns a ValidationError whose errors are exactly the errors
\* of the evaluated fields that failed; the skipped field has no entry in
\* results and no error under its name.
C5_SkippedFieldIsSilent ==
    \A c \in CallIds :
        (pc[c] = "returned" /\ Skipped(c) # {}) =>
            /\ returned[c].cls = "ValidationError"
            /\ returned[c].errors = FailedErrors(c, 1)
            /\ \A n \in Skipped(c) :
                  /\ n \notin DictKeys(results[c])
                  /\ \A i \in DOMAIN returned[c].errors :
                        returned[c].errors[i].field[1] # PyStr(n)

\* C5 witness: a call returned a ValidationError with a single error while
\* one field succeeded, one failed and one was skipped
\* (test_field_dependencies_error with a further field).
C5_Witness ==
    \E c \in CallIds :
        /\ pc[c] = "returned"
        /\ Skipped(c) # {}
        /\ Len(returned[c].errors) = 1
        /\ \E n \in FieldNames : HasValue(c, n)

\* some validator of the field declares a parameter named value
DeclaresValue(f) ==
    \E i \in DOMAIN f.validators : "value" \in get_deps(f.validators[i])

\* the indexes of the validators of the schema field name that call c has
\* called
CalledOf(c, name) ==
    {calls_log[c][i].index :
        i \in {j \in DOMAIN calls_log[c] :
                  calls_log[c][j].field = <<PyStr(name)>>}}

\* the value clean returned for the field, when it returned a record
ReturnedValue(c, name) == DictGet(returned[c].v, name)

\* C6 as stated: a field evaluated with an omitted input holds the configured
\* omitted value without any validator having run if it is Optional, and
\* holds exactly one error "Value is required." at its path if it is
\* Required.
C6_OmittedInput_AnyChain ==
    \A c \in CallIds : \A i \in DOMAIN evaluated[c] :
        LET n == evaluated[c][i][1]
            f == FieldOf(n)
        IN  evaluated[c][i][2] = omitted =>
              /\ n \in DictKeys(results[c])
              /\ f.nullability.cls = "Optional" =>
                    /\ DictGet(results[c], n) =
                          Value(f.nullability.omitted_value)
                    /\ CalledOf(c, n) = {}
              /\ f.nullability.cls = "Required" =>
                    /\ HasErrors(c, n)
                    /\ flatten(DictGet(results[c], n)) =
                          <<Error("Value is required.", <<PyStr(n)>>)>>

\* C6, amended: a field with a validator that declares value, evaluated with
\* an omitted input, holds the configured omitted value without any validator
\* having run if it is Optional (and clean returns that value for it when no
\* field fails), and holds exactly one error "Value is required." at its
\* path if it is Required.
C6_OmittedInput ==
    \A c \in CallIds : \A i \in DOMAIN evaluated[c] :
        LET n == evaluated[c][i][1]
            f == FieldOf(n)
        IN  (evaluated[c][i][2] = omitted /\ DeclaresValue(f)) =>
              /\ n \in DictKeys(results[c])
              /\ f.nullability.cls = "Optional" =>
                    /\ DictGet(results[c], n) =
                          Value(f.nullability.omitted_value)
                    /\ CalledOf(c, n) = {}
                    /\ (pc[c] = "returned"
                          /\ \A m \in FieldNames : HasValue(c, m)) =>
                          /\ returned[c].cls = "dict"
                          /\ ReturnedValue(c, n) = f.nullability.omitted_value
              /\ f.nullability.cls = "Required" =>
                    /\ HasErrors(c, n)
                    /\ flatten(DictGet(results[c], n)) =
                          <<Error("Value is required.", <<PyStr(n)>>)>>

\* C6 witness: clean returned a record in which an Optional field whose
\* input was omitted holds its configured default, no validator of the field
\* having been called.
C6_Witness ==
    \E c \in CallIds : \E i \in DOMAIN evaluated[c] :
        LET n == evaluated[c][i][1]
            f == FieldOf(n)
        IN  /\ evaluated[c][i][2] = omitted
            /\ DeclaresValue(f)
            /\ f.nullability = Optional(TRUE, PyStr("default"))
            /\ pc[c] = "returned"
            /\ returned[c].cls = "dict"
            /\ ReturnedValue(c, n) = PyStr("default")

\* C7 as stated: a field evaluated with a None input holds Value(None) if
\* it allows None, and otherwise holds an error at its path with the
\* message "Value is required, and must not be null."
C7_NullInput_AsStated ==
    \A c \in CallIds : \A i \in DOMAIN evaluated[c] :
        LET n == evaluated[c][i][1]
            f == FieldOf(n)
        IN  evaluated[c][i][2] = None =>
              /\ f.nullability.allow_none =>
                    /\ n \in DictKeys(results[c])
                    /\ DictGet(results[c], n) = Value(None)
              /\ ~f.nullability.allow_none =>
                    /\ HasErrors(c, n)
                    /\ Error("Value is required, and must not be null.",
                             <<PyStr(n)>>)
                          \in {flatten(DictGet(results[c], n))[k] :
                                 k \in DOMAIN DictGet(results[c], n).errors}

\* C7, amended: a field with a validator that declares value, evaluated with
\* a None input, holds Value(None) without any validator having run if it
\* allows None, and otherwise holds the one error "Value is required, and
\* must not be None." at its path.
C7_NullInput ==
    \A c \in CallIds : \A i \in DOMAIN evaluated[c] :
        LET n == evaluated[c][i][1]
            f == FieldOf(n)
        IN  (evaluated[c][i][2] = None /\ DeclaresValue(f)) =>
              /\ n \in DictKeys(results[c])
              /\ f.nullability.allow_none =>
                    /\ DictGet(results[c], n) = Value(None)
                    /\ CalledOf(c, n) = {}
              /\ ~f.nullability.allow_none =>
                    /\ HasErrors(c, n)
                    /\ flatten(DictGet(results[c], n)) =
                          <<Error("Value is required, and must not be None.",
                                  <<PyStr(n)>>)>>

\* C7 witness: a mapping gave None to a field that declares value and does
\* not allow None, and clean returned a ValidationError.
C7_Witness ==
    \E c \in CallIds : \E i \in DOMAIN evaluated[c] :
        LET n == evaluated[c][i][1]
            f == FieldOf(n)
        IN  /\ evaluated[c][i][2] = None
            /\ call_data[c].cls = "dict"
            /\ DeclaresValue(f)
            /\ ~f.nullability.allow_none
            /\ pc[c] = "returned"
            /\ returned[c].cls = "ValidationError"

\* C8: an Optional field that does not allow None and has a validator that
\* declares value, evaluated with a None input, holds exactly one error, at
\* its path, with the message "Value must not be None."
C8_OmittableNotNullable ==
    \A c \in CallIds : \A i \in DOMAIN evaluated[c] :
        LET n == evaluated[c][i][1]
            f == FieldOf(n)
        IN  (/\ evaluated[c][i][2] = None
             /\ DeclaresValue(f)
             /\ f.nullability.cls = "Optional"
             /\ ~f.nullability.allow_none) =>
              /\ HasErrors(c, n)
              /\ flatten(DictGet(results[c], n)) =
                    <<Error("Value must not be None.", <<PyStr(n)>>)>>

NullabilityMessages ==
    {"Value is required.", "Value is required, and must not be None."}

\* C9: a field none of whose validators declares value, evaluated with an
\* omitted or None input, is not short-circuited: unless the call raised,
\* its first validator was called, its result is no required/null error,
\* and if it holds a Value every validator of its chain was called.
C9_NullabilityNeedsValueParameter ==
    \A c \in CallIds : \A i \in DOMAIN evaluated[c] :
        LET n == evaluated[c][i][1]
            f == FieldOf(n)
        IN  (evaluated[c][i][2] \in {omitted, None} /\ ~DeclaresValue(f)) =>
              /\ n \in DictKeys(results[c]) => 1 \in CalledOf(c, n)
              /\ n \notin DictKeys(results[c]) => pc[c] = "raised"
              /\ HasErrors(c, n) =>
                    \A k \in DOMAIN DictGet(results[c], n).errors :
                        DictGet(results[c], n).errors[k].msg
                            \notin NullabilityMessages
              /\ HasValue(c, n) => CalledOf(c, n) = DOMAIN f.validators

\* C9 witness: a Required field computed by a function without a value
\* parameter was given None by a mapping, and holds the object its validator
\* built.
C9_Witness ==
    \E c \in CallIds : \E i \in DOMAIN evaluated[c] :
        LET n == evaluated[c][i][1]
            f == FieldOf(n)
        IN  /\ evaluated[c][i][2] = None
            /\ call_data[c].cls = "dict"
            /\ ~DeclaresValue(f)
            /\ f.nullability = Required(FALSE)
            /\ HasValue(c, n)
            /\ DictGet(results[c], n).value.cls = "object"

\* the validator declares context and its default is not the empty sentinel
RequiresContext(func) ==
    "context" \in get_deps(func) /\ func.context_default # empty

DeclaresContext ==
    \E n \in FieldNames : \E i \in DOMAIN FieldOf(n).validators :
        "context" \in get_deps(FieldOf(n).validators[i])

\* C10 as stated: a clean call without a context on a schema in which some
\* validator declares context ends by raising the context-required failure.
C10_ContextRequired_AsStated ==
    \A c \in CallIds :
        (/\ call_context[c] = empty
         /\ DeclaresContext
         /\ pc[c] \in {"returned", "raised"}) =>
            returned[c] = Raise("ValueError")

\* the first validators of the field that precede every validator that
\* requires a context
BeforeContext(f) ==
    {j \in DOMAIN f.validators :
        \A k \in 1..j : ~RequiresContext(f.validators[k])}

\* some validator of the field, of the inner field of a list field of it, or
\* of a field of a schema nested in it, requires a context
RECURSIVE ContainsRequiresContext(_)
ContainsRequiresContext(f) ==
    \E j \in DOMAIN f.validators :
        LET v == f.validators[j]
        IN  \/ RequiresContext(v)
            \/ /\ v.fn = "listfield"
               /\ ContainsRequiresContext(v.inner_field)
            \/ /\ v.fn = "nestedfield"
               /\ \E k \in DOMAIN v.inner_schema.fields :
                      ContainsRequiresContext(v.inner_schema.fields[k][2])

\* C10, amended: in a clean call without a context no validator that
\* requires one (declares context with a default other than empty) is ever
\* called; a field with such a validator, once evaluated, was either
\* short-circuited by its nullability, or failed in a validator before it,
\* or made clean raise the context-required failure right after the
\* validators before it were called, leaving the field without a result, or
\* made clean raise another exception before that validator was reached; and
\* clean raises that failure in no other case, but for a field that holds
\* such a validator in the inner field of a list or in a nested schema.
C10_ContextRequired ==
    \A c \in CallIds :
        call_context[c] = empty =>
            /\ \A i \in DOMAIN calls_log[c] :
                  ~RequiresContext(calls_log[c][i].func)
            /\ \A i \in DOMAIN evaluated[c] :
                  LET n == evaluated[c][i][1]
                      f == FieldOf(n)
                      raises == /\ returned[c] = Raise("ValueError")
                                /\ pc[c] = "raised"
                                /\ i = Len(evaluated[c])
                                /\ n \notin DictKeys(results[c])
                  IN  IF \E j \in DOMAIN f.validators :
                            RequiresContext(f.validators[j])
                      THEN \/ /\ HandlesNullability(f, evaluated[c][i][2])
                              /\ n \in DictKeys(results[c])
                              /\ CalledOf(c, n) = {}
                           \/ /\ HasErrors(c, n)
                              /\ CalledOf(c, n) \subseteq BeforeContext(f)
                           \/ /\ raises
                              /\ CalledOf(c, n) = BeforeContext(f)
                           \/ /\ pc[c] = "raised"
                              /\ returned[c].cls = "Raise"
                              /\ returned[c] # Raise("ValueError")
                              /\ i = Len(evaluated[c])
                              /\ n \notin DictKeys(results[c])
                              /\ CalledOf(c, n) \subseteq BeforeContext(f)
                      ELSE raises => ContainsRequiresContext(f)
            /\ returned[c] = Raise("ValueError") => evaluated[c] # <<>>

\* C10 witness: a call without a context raised the context-required
\* failure after another field had failed; the failure of that field stays
\* in results and nothing is returned.
C10_Witness ==
    \E c \in CallIds :
        /\ call_context[c] = empty
        /\ pc[c] = "raised"
        /\ returned[c] = Raise("ValueError")
        /\ \E n \in FieldNames : HasErrors(c, n)

\* the validators of the field, of the inner field of a list field of it,
\* and of the fields of a schema nested in it
RECURSIVE ContainedValidators(_)
ContainedValidators(f) ==
    UNION {LET v == f.validators[j]
           IN  {v}
               \cup (IF v.fn = "listfield"
                     THEN ContainedValidators(v.inner_field) ELSE {})
               \cup (IF v.fn = "nestedfield"
                     THEN UNION {ContainedValidators(
                                    v.inner_schema.fields[k][2]) :
                                    k \in DOMAIN v.inner_schema.fields}
                     ELSE {}) :
           j \in DOMAIN f.validators}

\* call c raised the context-required failure
RaisedContextRequired(c) ==
    pc[c] = "raised" /\ returned[c] = Raise("ValueError")

\* C11 as stated: without a context, the context-required failure is raised
\* only for a validator whose context parameter has no default: the field
\* whose evaluation raised it holds a validator that declares context
\* without a default, and no validator that declares context without a
\* default is called.
C11_RaisedOnlyWithoutDefault ==
    \A c \in CallIds :
        call_context[c] = empty =>
            /\ RaisedContextRequired(c) =>
                  \E v \in ContainedValidators(FieldOf(LastEvaluated(c))) :
                      "context" \in get_deps(v) /\ v.context_default = NoDefault
            /\ \A i \in DOMAIN calls_log[c] :
                  "context" \in get_deps(calls_log[c][i].func) =>
                      calls_log[c][i].func.context_default # NoDefault

\* C11, amended: without a context, the context-required failure is raised
\* only for a validator whose context parameter has a default other than the
\* empty sentinel, or none; every validator called that declares context has
\* the default empty and is given empty as its context; and a field that
\* holds a Value its nullability did not decide has had every validator of
\* its chain called.
C11_ContextDefault ==
    \A c \in CallIds :
        call_context[c] = empty =>
            /\ RaisedContextRequired(c) =>
                  \E v \in ContainedValidators(FieldOf(LastEvaluated(c))) :
                      "context" \in get_deps(v) /\ v.context_default # empty
            /\ \A i \in DOMAIN calls_log[c] :
                  "context" \in get_deps(calls_log[c][i].func) =>
                      /\ calls_log[c][i].func.context_default = empty
                      /\ calls_log[c][i].kwargs["context"] = empty
            /\ \A i \in DOMAIN evaluated[c] :
                  LET n == evaluated[c][i][1]
                  IN  (/\ HasValue(c, n)
                       /\ ~HandlesNullability(FieldOf(n), evaluated[c][i][2]))
                        => CalledOf(c, n) = DOMAIN FieldOf(n).validators

\* C11 witness: a call without a context returned a record after calling a
\* user validator whose context parameter defaults to empty.
C11_Witness ==
    \E c \in CallIds :
        /\ call_context[c] = empty
        /\ pc[c] = "returned"
        /\ returned[c].cls = "dict"
        /\ \E i \in DOMAIN calls_log[c] :
              /\ calls_log[c][i].func.fn = "make"
              /\ "context" \in get_deps(calls_log[c][i].func)
              /\ calls_log[c][i].kwargs["context"] = empty

\* C12: every validator called that declares context, in the chain of a
\* schema field, in the inner field of a list or in a nested schema, is given
\* the context of the clean call; and a call that was given a context never
\* raises the context-required failure.
C12_ContextPassedThrough ==
    \A c \in CallIds :
        /\ \A i \in DOMAIN calls_log[c] :
              "context" \in get_deps(calls_log[c][i].func) =>
                  calls_log[c][i].kwargs["context"] = call_context[c]
        /\ call_context[c] # empty => ~RaisedContextRequired(c)

\* C12 witness: a call with a context returned a record after the validator
\* of a field of a nested schema was given that context.
C12_Witness ==
    \E c \in CallIds :
        /\ call_context[c] = Context
        /\ pc[c] = "returned"
        /\ returned[c].cls = "dict"
        /\ \E i, j \in DOMAIN calls_log[c] :
              /\ i < j
              /\ calls_log[c][i].func.fn = "nestedfield"
              /\ calls_log[c][j].field = <<PyStr("a")>>
              /\ calls_log[c][j].func = ContextValidator
              /\ calls_log[c][j].kwargs["context"] = Context

\* the names under which the input of the field is looked up
AcceptedNames(name) ==
    IF FieldOf(name).accepts # <<>> THEN FieldOf(name).accepts ELSE <<name>>

\* the value the data holds under the first of the names it has, omitted
\* if it has none of them
FirstPresent(data, names) ==
    LET present == {i \in DOMAIN names : names[i] \in DOMAIN data.v}
    IN  IF present = {} THEN omitted
        ELSE data.v[names[CHOOSE i \in present : \A j \in present : i <= j]]

\* C13: the raw input a field is evaluated with is the value the input data
\* holds under the first of its accepts aliases, in declared order, that is
\* present in the data (under the field's own name when it has no aliases),
\* and the omitted sentinel when none of the names is present.
C13_RawInputFromAccepts ==
    \A c \in CallIds : \A i \in DOMAIN evaluated[c] :
        evaluated[c][i][2] =
            FirstPresent(call_data[c], AcceptedNames(evaluated[c][i][1]))

\* the same, for the calls whose input data is a mapping
RawInputFromAcceptsOfMapping ==
    \A c \in CallIds : \A i \in DOMAIN evaluated[c] :
        call_data[c].cls = "dict" =>
            evaluated[c][i][2] =
                FirstPresent(call_data[c], AcceptedNames(evaluated[c][i][1]))

\* C14: a clean call on an object ends as the clean call on the mapping
\* that holds the attributes of the object under their names ends: with the
\* same record, the same ValidationError or the same exception.
C14_ObjectAsMapping ==
    \A c \in CallIds :
        (call_data[c].cls = "object" /\ pc[c] \in {"returned", "raised"}) =>
            returned[c] = clean(schema_fields, PyDict(call_data[c].v),
                                call_context[c], call_now[c]).result

\* the field is a list field: its first validator is a listfield
IsListField(f) == f.validators[1].fn = "listfield"

\* the inner field of a list field
InnerFieldOf(f) == f.validators[1].inner_field

\* the inner field rejects the element: None when it does not allow it,
\* or a value its first validator (strfield, intfield) gives an Error for
InvalidElement(inner, elem, today) ==
    IF elem = None THEN ~inner.nullability.allow_none
    ELSE Apply(inner.validators[1], [value |-> elem], today).cls = "Error"

\* the indices (from 0) of the elements of the list the inner field rejects
InvalidIndices(inner, elems, today) ==
    {k - 1 : k \in {j \in DOMAIN elems :
                       InvalidElement(inner, elems[j], today)}}

\* C15: when a list field has been evaluated on a list without the call
\* raising, every element that is not None has had the first validator of
\* the inner field called on it, whatever the elements before it; and if
\* the set S of the indices of the invalid elements is not empty, the result
\* of the field is one Errors at the path of the field, holding exactly one
\* error per index of S, the flattened paths being (field name, i) for i
\* in S.
C15_ListErrorsPerElement ==
    \A c \in CallIds : \A i \in DOMAIN evaluated[c] :
        LET n == evaluated[c][i][1]
            raw == evaluated[c][i][2]
            f == FieldOf(n)
            inner == InnerFieldOf(f)
            S == InvalidIndices(inner, raw.v, call_now[c])
            res == DictGet(results[c], n)
        IN  (/\ IsListField(f)
             /\ raw.cls \in {"list", "tuple"}
             /\ n \in DictKeys(results[c])) =>
              /\ \A k \in DOMAIN raw.v :
                    raw.v[k] # None =>
                        \E j \in DOMAIN calls_log[c] :
                            /\ calls_log[c][j].field = <<PyInt(k - 1)>>
                            /\ calls_log[c][j].index = 1
                            /\ calls_log[c][j].kwargs["value"] = raw.v[k]
              /\ S # {} =>
                    /\ res.cls = "Errors"
                    /\ res.field = <<PyStr(n)>>
                    /\ Len(res.errors) = Cardinality(S)
                    /\ {flatten(res)[j].field : j \in DOMAIN res.errors} =
                          {<<PyStr(n), PyInt(k)>> : k \in S}
              /\ S = {} => res.cls = "Value"

\* C15 witness: a list whose first element is invalid and whose second
\* element is valid was given to a list field; the second element was
\* validated all the same and the field holds the error of the first.
C15_Witness ==
    \E c \in CallIds : \E i \in DOMAIN evaluated[c] :
        LET n == evaluated[c][i][1]
            raw == evaluated[c][i][2]
        IN  /\ IsListField(FieldOf(n))
            /\ raw.cls = "list"
            /\ Len(raw.v) >= 2
            /\ raw.v[1] = PyInt(5)
            /\ raw.v[2] = PyStr("x")
            /\ HasErrors(c, n)
            /\ \E j \in DOMAIN calls_log[c] :
                  calls_log[c][j].field = <<PyInt(1)>>
            /\ pc[c] = "returned"
            /\ returned[c].cls = "ValidationError"

\* the results call c held when it evaluated the field: the entry of self
\* and the results of the fields evaluated before it
ResultsWhenEvaluated(c, name) ==
    SelectSeq(results[c],
              LAMBDA kv :
                  \/ kv[1] = "self"
                  \/ \E x, y \in DOMAIN evaluated[c] :
                        /\ evaluated[c][x][1] = kv[1]
                        /\ evaluated[c][y][1] = name
                        /\ x < y)

\* the validated value of each element of the list given to the field, in
\* the order of the list
ValidatedElements(c, name, inner, elems) ==
    PyList([k \in DOMAIN elems |->
              run_validators(inner, <<PyInt(k - 1)>>, elems[k],
                             call_context[c], call_now[c],
                             ResultsWhenEvaluated(c, name)).result.value])

\* C16: when a list field has been evaluated on a list all of whose elements
\* are valid, without the call raising, the validators that follow the
\* listfield in its chain were called with the list of the validated values
\* of the elements, of the same length and in the same order as the input,
\* and the field holds what the chain made of that list (the list itself
\* when nothing follows the listfield).
C16_ListReconstructed ==
    \A c \in CallIds : \A i \in DOMAIN evaluated[c] :
        LET n == evaluated[c][i][1]
            raw == evaluated[c][i][2]
            f == FieldOf(n)
            inner == InnerFieldOf(f)
            validated == ValidatedElements(c, n, inner, raw.v)
            res == DictGet(results[c], n)
        IN  (/\ IsListField(f)
             /\ raw.cls \in {"list", "tuple"}
             /\ n \in DictKeys(results[c])
             /\ InvalidIndices(inner, raw.v, call_now[c]) = {}) =>
              /\ Len(validated.v) = Len(raw.v)
              /\ IF Len(f.validators) = 1
                 THEN res = Value(validated)
                 ELSE /\ \E j \in DOMAIN calls_log[c] :
                            /\ calls_log[c][j].field = <<PyStr(n)>>
                            /\ calls_log[c][j].index = 2
                            /\ calls_log[c][j].kwargs["value"] = validated
                      /\ res = Value(Apply(f.validators[2],
                                           [value |-> validated],
                                           call_now[c]))

\* C16 witness: the list ["x", "y"] was given to a list field whose inner
\* field wraps each string into an object and whose chain goes on after the
\* listfield; clean returned a record.
C16_Witness ==
    \E c \in CallIds : \E i \in DOMAIN evaluated[c] :
        LET n == evaluated[c][i][1]
            raw == evaluated[c][i][2]
            f == FieldOf(n)
        IN  /\ IsListField(f)
            /\ Len(f.validators) = 2
            /\ raw = PyList(<<PyStr("x"), PyStr("y")>>)
            /\ InnerFieldOf(f).validators =
                  <<strfield, make({"value"}, NoDefault)>>
            /\ pc[c] = "returned"
            /\ returned[c].cls = "dict"
            /\ ReturnedValue(c, n) =
                  Obj([value |->
                        PyList(<<Obj([value |-> PyStr("x")]),
                                 Obj([value |-> PyStr("y")])>>)])

\* the field holds a nested schema: its first validator is a nestedfield
IsNestedField(f) == f.validators[1].fn = "nestedfield"

\* the errors of the ValidationError clean returned that lie under the field
ReturnedErrorsUnder(c, name) ==
    SelectSeq(returned[c].errors, LAMBDA e : e.field[1] = PyStr(name))

\* C17: when a nested-schema field has been evaluated on a payload, without
\* the call raising: if clean of the inner schema on the payload gives a
\* ValidationError, the field holds its errors, each once and in the same
\* order, with the name of the field put before the inner path, and they are
\* the errors under that name of the ValidationError the outer clean
\* returns; if it gives an instance, the field holds that instance, and so
\* does the record the outer clean returns.
C17_NestedErrorsPrefixed ==
    \A c \in CallIds : \A i \in DOMAIN evaluated[c] :
        LET n == evaluated[c][i][1]
            raw == evaluated[c][i][2]
            f == FieldOf(n)
            inner == Schema_clean(f.validators[1].inner_schema.fields, raw,
                                  call_context[c], call_now[c]).result
            prefixed == [k \in DOMAIN inner.errors |->
                            Error(inner.errors[k].msg,
                                  <<PyStr(n)>> \o inner.errors[k].field)]
            res == DictGet(results[c], n)
        IN  (/\ IsNestedField(f)
             /\ raw \notin {omitted, None}
             /\ n \in DictKeys(results[c])) =>
              /\ inner.cls \in {"ValidationError", "Schema"}
              /\ inner.cls = "ValidationError" =>
                    /\ res.cls = "Errors"
                    /\ flatten(res) = prefixed
                    /\ pc[c] = "returned" =>
                          /\ returned[c].cls = "ValidationError"
                          /\ ReturnedErrorsUnder(c, n) = prefixed
              /\ inner.cls = "Schema" =>
                    /\ res = Value(inner)
                    /\ (pc[c] = "returned" /\ returned[c].cls = "dict") =>
                          ReturnedValue(c, n) = inner

\* C17 witness: the outer clean returned a ValidationError with two errors
\* under the nested field, at the paths of two different inner fields.
C17_Witness ==
    \E c \in CallIds :
        /\ pc[c] = "returned"
        /\ returned[c].cls = "ValidationError"
        /\ \E n \in FieldNames :
              /\ IsNestedField(FieldOf(n))
              /\ Len(ReturnedErrorsUnder(c, n)) = 2
              /\ ReturnedErrorsUnder(c, n)[1].field = <<PyStr(n), PyStr("b")>>
              /\ ReturnedErrorsUnder(c, n)[2].field = <<PyStr(n), PyStr("a")>>

\* the position of the field in the order of evaluation of call c
EvaluationIndex(c, name) ==
    CHOOSE k \in DOMAIN evaluated[c] : evaluated[c][k][1] = name

\* the position of the field in the schema
DeclarationIndex(name) ==
    CHOOSE k \in DOMAIN schema_fields : schema_fields[k][1] = name

\* C18: in the ValidationError clean returns, every error lies under a
\* field that was evaluated, and the errors of a field evaluated earlier
\* come before the errors of a field evaluated later.
C18_ErrorsInEvaluationOrder ==
    \A c \in CallIds :
        (pc[c] = "returned" /\ returned[c].cls = "ValidationError") =>
            LET errors == returned[c].errors
            IN  /\ \A i \in DOMAIN errors :
                      errors[i].field[1].v \in EvaluatedNames(c)
                /\ \A i, j \in DOMAIN errors :
                      i < j =>
                        EvaluationIndex(c, errors[i].field[1].v)
                            <= EvaluationIndex(c, errors[j].field[1].v)

\* C18 witness: clean returned a ValidationError in which the error of a
\* field comes before the error of a field declared before it.
C18_Witness ==
    \E c \in CallIds :
        /\ pc[c] = "returned"
        /\ returned[c].cls = "ValidationError"
        /\ \E i, j \in DOMAIN returned[c].errors :
              /\ i < j
              /\ DeclarationIndex(returned[c].errors[i].field[1].v)
                    > DeclarationIndex(returned[c].errors[j].field[1].v)

\* call c has left the while loop of clean and gone through the end of clean
FinishedLoop(c) ==
    pc[c] = "returned" \/ returned[c] = Raise("AssertionError")

\* C19: when clean has finished without any field holding errors, every
\* field of the schema holds a Value and clean has returned a record with
\* exactly one entry per field of the schema, the value of that field, and
\* no entry for "self"; the final key-set assertion has not failed.
C19_NoErrorsMeansFullRecord ==
    \A c \in CallIds :
        (FinishedLoop(c) /\ \A n \in FieldNames : ~HasErrors(c, n)) =>
            /\ \A n \in FieldNames : HasValue(c, n)
            /\ returned[c].cls = "dict"
            /\ DictKeys(returned[c].v) = FieldNames
            /\ Len(returned[c].v) = Cardinality(FieldNames)
            /\ \A n \in FieldNames :
                  ReturnedValue(c, n) = DictGet(results[c], n).value

\* the same, for the schemas the dependency check of schema.py accepts
FullRecordOfCheckedSchema ==
    check_for_dependency_loops(schema_fields) => C19_NoErrorsMeansFullRecord

\* serialize was run on what call c returned, and returned a dict
HasSerialized(c) == serialized[c] # None /\ serialized[c].cls = "dict"

\* the key serialize writes the field under
SerializedKey(name) == serialize_key(name, FieldOf(name))

\* what serialize_func makes of the validated value of the field
SerializedValue(c, name) ==
    CallPositional(FieldOf(name).serialize_func, ReturnedValue(c, name),
                   call_now[c])

\* C20: the output of serialize, when it returns one, holds, for each field of the schema whose
\* serialized value is not the omitted sentinel, that value under the key
\* serialize_to, or under the name of the field when serialize_to is not
\* set; it holds no entry whose value is the omitted sentinel and no other
\* key.
C20_SerializeOutput ==
    \A c \in CallIds :
        HasSerialized(c) =>
            LET out == serialized[c].v
            IN  /\ \A n \in FieldNames :
                      SerializedValue(c, n) # omitted =>
                          /\ SerializedKey(n) \in DictKeys(out)
                          /\ DictGet(out, SerializedKey(n)) =
                                SerializedValue(c, n)
                /\ \A i \in DOMAIN out : out[i][2] # omitted
                /\ DictKeys(out) \subseteq
                      {SerializedKey(n) : n \in FieldNames}

\* the same, for serialize of schema_definition.py on schemas no two fields
\* of which are written under the same key
SerializeOutputOfDefinition ==
    (/\ schema_via = "SchemaDefinition"
     /\ \A n, m \in FieldNames : SerializedKey(n) = SerializedKey(m) => n = m)
        => C20_SerializeOutput

\* the value the input data of call c holds under the name of the field
OriginalValue(c, name) == call_data[c].v[name]

\* what serialize_func makes of the value the input data holds for the field
SerializedOriginal(c, name) ==
    CallPositional(FieldOf(name).serialize_func, OriginalValue(c, name),
                   call_now[c])

\* C21 as stated: the output of serialize after clean, when serialize
\* returns one, holds, for every field
\* the input data has a value for, what serialize_func makes of that value,
\* under serialize_to or the name of the field, and no entry for a field the
\* input data has no value for.
C21_RoundTrip_AsStated ==
    \A c \in CallIds :
        HasSerialized(c) =>
            \A n \in FieldNames :
                IF n \in DOMAIN call_data[c].v
                THEN /\ SerializedKey(n) \in DictKeys(serialized[c].v)
                     /\ DictGet(serialized[c].v, SerializedKey(n)) =
                           SerializedOriginal(c, n)
                ELSE SerializedKey(n) \notin DictKeys(serialized[c].v)

\* every validator of the field returns a valid value as it is
PassesThrough(f) ==
    \A i \in DOMAIN f.validators : f.validators[i].fn \in {"strfield", "noop"}

\* no other field of the schema is serialized under the key of the field
OwnSerializedKey(name) ==
    \A m \in FieldNames : SerializedKey(m) = SerializedKey(name) => m = name

\* C21, amended: when clean of a mapping returned a record and serialize of
\* the record returned (no serialize_func raised), every field that is read under its own name, whose
\* validators return a valid value as it is, that the mapping holds a value
\* for and that alone is serialized under its key, is in the output under
\* serialize_to (or its name) with what serialize_func makes of the value
\* the mapping holds.
C21_RoundTrip ==
    \A c \in CallIds :
        (HasSerialized(c) /\ call_data[c].cls = "dict") =>
            \A n \in FieldNames :
                (/\ PassesThrough(FieldOf(n))
                 /\ FieldOf(n).accepts = <<>>
                 /\ n \in DOMAIN call_data[c].v
                 /\ OwnSerializedKey(n)) =>
                    /\ SerializedKey(n) \in DictKeys(serialized[c].v)
                    /\ DictGet(serialized[c].v, SerializedKey(n)) =
                          SerializedOriginal(c, n)

\* C21 witness: the mapping {a: "hi", b: "yo"} was cleaned and serialized,
\* a being written under the key A by a serialize_func that wraps it.
C21_Witness ==
    \E c \in CallIds :
        /\ serialized[c] # None
        /\ call_data[c] = PyDict([k \in {"a", "b"} |->
                                    IF k = "a" THEN PyStr("hi")
                                    ELSE PyStr("yo")])
        /\ FieldOf("a").serialize_to = PyStr("A")
        /\ serialized[c] =
              PyDict(<<<<"A", Obj([value |-> PyStr("hi")])>>,
                       <<"b", PyStr("yo")>>>>)

\* call c has ended, by returning or by raising
Ended(c) == pc[c] \in {"returned", "raised"}

\* the step is not a step of call c
NotStepOf(c) ==
    /\ pc'[c] = pc[c]
    /\ evaluated'[c] = evaluated[c]
    /\ serialized'[c] = serialized[c]

\* C22: no step of a clean call changes the fields of the schema, the data
\* or the context of any call, or anything another call holds; a call starts
\* its while loop with a results map that holds "self" alone; and two calls
\* that have ended, made with the same data and context on the schema, have
\* returned or raised the same. The last part fails on a schema with a
\* datetimefield: the field fills what the string leaves out from
\* datetime.now(), so the same call made on another day returns another
\* datetime.
C22_CleanWritesOwnResultsOnly ==
    [][/\ schema_status # "declared" => schema_fields' = schema_fields
       /\ call_data' = call_data
       /\ call_context' = call_context
       /\ \A c \in CallIds :
             /\ NotStepOf(c) =>
                   /\ results'[c] = results[c]
                   /\ eval_queue'[c] = eval_queue[c]
                   /\ delayed_eval'[c] = delayed_eval[c]
                   /\ returned'[c] = returned[c]
             /\ (pc[c] = "idle" /\ pc'[c] = "loop") =>
                   results'[c] = <<<<"self", Value(None)>>>>
       /\ \A c, k \in CallIds :
             (/\ Ended(c)' /\ Ended(k)'
              /\ call_data[c] = call_data[k]
              /\ call_context[c] = call_context[k]) =>
                 /\ returned'[c] = returned'[k]
                 /\ pc'[c] = pc'[k]]_vars

\* two calls that have ended, made with the same data and context on the
\* schema while datetime.now() gave the same date, have returned or raised
\* the same
RepeatedCallsAgreeOnOneDate ==
    \A c, k \in CallIds :
        (/\ Ended(c) /\ Ended(k)
         /\ call_data[c] = call_data[k]
         /\ call_context[c] = call_context[k]
         /\ call_now[c] = call_now[k]) =>
            /\ returned[c] = returned[k]
            /\ pc[c] = pc[k]

\* what clean gives when it is run from its start to its end without any
\* other call: the record, the ValidationError or the exception
AloneResult(c) ==
    clean(schema_fields, call_data[c], call_context[c], call_now[c]).result

\* C23: whatever the interleaving of the steps of the clean calls made on
\* one schema, a call that has ended has returned or raised what clean
\* returns or raises for its data and context when it is run alone.
C23_InterleavedAsAlone ==
    \A c \in CallIds : Ended(c) => returned[c] = AloneResult(c)

\* C23 witness: two calls on one schema, with different data, have each run
\* an iteration of their loop while the other was inside its own loop; both
\* have returned, one a record and the other a ValidationError.
C23_Witness ==
    \E c, k \in CallIds :
        /\ c # k
        /\ overlapped[c] /\ overlapped[k]
        /\ call_data[c] # call_data[k]
        /\ pc[c] = "returned" /\ pc[k] = "returned"
        /\ returned[c].cls = "dict"
        /\ returned[k].cls = "ValidationError"

\* the raw input call c evaluated the field with
RawOf(c, name) == evaluated[c][EvaluationIndex(c, name)][2]

\* what the whole validator chain of the field makes of the raw input call c
\* evaluated it with
ChainResult(c, name) ==
    run_validators(FieldOf(name), <<PyStr(name)>>, RawOf(c, name),
                   call_context[c], call_now[c],
                   ResultsWhenEvaluated(c, name)).result

\* the parameters of the validator that name a field of the schema
SiblingParams(func) == (get_deps(func) \ {"context", "value"}) \cap FieldNames

\* C24: whenever a validator of a schema field is called, each of its
\* parameters named after a field of the schema is bound to the validated
\* value of that field: the field was evaluated before, its result is the
\* Value its whole validator chain made of its raw input, and the argument
\* is the value that Value holds.
C24_SiblingValidatedValue ==
    \A c \in CallIds : \A i \in DOMAIN calls_log[c] :
        LET e == calls_log[c][i]
        IN  (Len(e.field) = 1 /\ e.field[1].cls = "str"
                /\ e.field[1].v \in EvaluatedNames(c)) =>
              \A p \in SiblingParams(e.func) :
                  /\ p \in EvaluatedNames(c)
                  /\ EvaluationIndex(c, p) < EvaluationIndex(c, e.field[1].v)
                  /\ HasValue(c, p)
                  /\ DictGet(results[c], p) = ChainResult(c, p)
                  /\ e.kwargs[p] = ChainResult(c, p).value

\* C24 witness: a is a string wrapped into an object by the second validator
\* of its chain, b is computed from a; for the input {a: "hi"} the validator
\* of b was given the object, not the string "hi", and clean returned the
\* record.
C24_Witness ==
    \E c \in CallIds : \E i \in DOMAIN calls_log[c] :
        /\ calls_log[c][i].field = <<PyStr("b")>>
        /\ "a" \in FieldNames
        /\ "a" \in EvaluatedNames(c)
        /\ RawOf(c, "a") = PyStr("hi")
        /\ calls_log[c][i].kwargs = [a |-> Obj([value |-> PyStr("hi")])]
        /\ pc[c] = "returned"
        /\ returned[c].cls = "dict"
        /\ ReturnedValue(c, "b") = Obj([a |-> Obj([value |-> PyStr("hi")])])

\* the calls call c made of the validators of the schema field, in the order
\* in which it made them
CallsOf(c, name) ==
    SelectSeq(calls_log[c], LAMBDA e : e.field = <<PyStr(name)>>)

\* what the validator returned in the call e of call c
OutputOf(c, e) == Call(e.func, e.kwargs, call_now[c]).result

\* the running value after the call e of call c: what the validator
\* returned, or the list built from the validated elements when it returned
\* a wrapped value
RunningAfter(c, e) ==
    LET out == OutputOf(c, e)
    IN  IF out.cls = "UnvalidatedWrappedValue"
        THEN ValidatedElements(c, e.field[1].v, out.inner_field, out.value.v)
        ELSE out

\* C25: the chain of a field built by the field decorator is the validators
\* of its parents in the order given, a parent that is a Field giving its own
\* validators in place, followed by the decorated function; the validators
\* of a schema field are called in the order of the chain, from the first
\* on and without a gap; a validator that declares value is given the raw
\* input if it is the first and what the validator before it returned
\* otherwise; and a validator that returns an Error or an Errors is the last
\* one called, the field holding its errors under the path of the field.
C25_ChainInDeclarationOrder ==
    /\ ExtendableField(make({"value"}, NoDefault)).validators =
          <<strfield, make({"value"}, NoDefault)>>
    /\ field_decorator(make({"self", "value"}, NoDefault),
                       <<noop, ExtendableField(nope({"value"}, NoDefault)),
                         strfield>>,
                       <<>>, None, noop, Required(FALSE)).validators =
          <<noop, strfield, nope({"value"}, NoDefault), strfield,
            make({"self", "value"}, NoDefault)>>
    /\ \A c \in CallIds : \A i \in DOMAIN evaluated[c] :
          LET n == evaluated[c][i][1]
              raw == evaluated[c][i][2]
              f == FieldOf(n)
              E == CallsOf(c, n)
          IN  \A j \in DOMAIN E :
                /\ E[j].index = j
                /\ j <= Len(f.validators)
                /\ E[j].func = f.validators[j]
                /\ "value" \in get_deps(E[j].func) =>
                      E[j].kwargs["value"] =
                          IF j = 1 THEN raw ELSE RunningAfter(c, E[j - 1])
                /\ OutputOf(c, E[j]).cls \in {"Error", "Errors"} =>
                      /\ j = Len(E)
                      /\ n \in DictKeys(results[c])
                      /\ DictGet(results[c], n) =
                            Errors(IF OutputOf(c, E[j]).cls = "Error"
                                   THEN <<OutputOf(c, E[j])>>
                                   ELSE flatten(OutputOf(c, E[j])),
                                   <<PyStr(n)>>)
                      /\ \A k \in DOMAIN DictGet(results[c], n).errors :
                            flatten(DictGet(results[c], n))[k].field[1] =
                                PyStr(n)

\* C25 witness: a field whose chain is strfield, a validator that fails and
\* the decorated function, the first two coming from a parent that is a
\* Field, was given a string; strfield and the failing validator were
\* called, the decorated function was not, and clean returned the error
\* under the name of the field.
C25_Witness ==
    \E c \in CallIds : \E n \in EvaluatedNames(c) :
        /\ FieldOf(n).validators =
              <<strfield, nope({"value"}, NoDefault),
                make({"self", "value"}, NoDefault)>>
        /\ RawOf(c, n) = PyStr("hi")
        /\ Len(CallsOf(c, n)) = 2
        /\ CallsOf(c, n)[2].kwargs = [value |-> PyStr("hi")]
        /\ pc[c] = "returned"
        /\ returned[c] = ValidationError(<<Error("nope", <<PyStr(n)>>)>>)

\* the names that are seen after k rounds in each of which every field all
\* of whose dependencies are seen becomes seen
RECURSIVE SeenAfter(_, _)
SeenAfter(seen, k) ==
    IF k = 0 THEN seen
    ELSE SeenAfter(seen \cup {n \in FieldNames :
                                 FieldOf(n).depends_on \subseteq seen}, k - 1)

\* the fields can be ordered so that each comes after its dependencies,
\* "self" needing no field
Orderable == FieldNames \subseteq SeenAfter({"self"}, Cardinality(FieldNames))

\* the field can never have all its dependencies seen: it or a dependency of
\* it, direct or transitive, depends on itself or is neither a field of the
\* schema nor "self"
NeverResolved(n) ==
    \E m \in {n} \cup TransitiveDeps(n) :
        \/ m \notin FieldNames \cup {"self"}
        \/ m \in FieldNames /\ m \in TransitiveDeps(m)

\* the loop of the dependency check goes through at most one iteration per
\* field of the schema
CheckTerminates ==
    check_iterations([i \in DOMAIN schema_fields |->
                         <<schema_fields[i][1],
                           schema_fields[i][2].depends_on>>], {"self"})
        <= Len(schema_fields)

\* C26 as stated: once the schema decorator has checked the dependencies of
\* a schema, it has raised exactly if some field can never have all its
\* dependencies seen, and it has accepted the schema exactly if its fields
\* can be ordered so that each comes after its dependencies; and the while
\* loop of the check goes through at most one iteration per field. It fails
\* on a class with a field named self: the name is in seen from the start,
\* so moving the field into seen is no progress, and the check raises
\* although the fields can be ordered.
C26_DependencyCheckExact_AsStated ==
    /\ (schema_via = "schema"
            /\ schema_status \in {"raised", "constructed"}) =>
          /\ schema_status = "raised" <=> \E n \in FieldNames : NeverResolved(n)
          /\ schema_status = "constructed" <=> Orderable
    /\ CheckTerminates

\* C26, amended: once the schema decorator has checked the dependencies of a
\* schema, it has raised exactly if some field can never have all its
\* dependencies seen or some field is named self, and it has accepted the
\* schema exactly if no field is named self and the fields can be ordered so
\* that each comes after its dependencies; and the while loop of the check
\* goes through at most one iteration per field.
C26_DependencyCheckExact ==
    /\ (schema_via = "schema"
            /\ schema_status \in {"raised", "constructed"}) =>
          /\ schema_status = "raised" <=>
                \/ \E n \in FieldNames : NeverResolved(n)
                \/ "self" \in FieldNames
          /\ schema_status = "constructed" <=>
                Orderable /\ "self" \notin FieldNames
    /\ CheckTerminates

\* the decorator rejected a class whose fields can be ordered, one of them
\* being named self
C26_RejectedSelfNamed ==
    /\ schema_via = "schema"
    /\ schema_status = "raised"
    /\ "self" \in FieldNames
    /\ Orderable
    /\ \A n \in FieldNames : ~NeverResolved(n)

\* C26 witness: the decorator accepted a schema of three fields in which the
\* first field depends on the second, and the second on the third.
C26_Witness ==
    /\ schema_via = "schema"
    /\ schema_status = "constructed"
    /\ Len(schema_fields) = 3
    /\ FieldOf("a").depends_on = {"b"}
    /\ FieldOf("b").depends_on = {"c"}
    /\ FieldOf("c").depends_on = {}

\* the decorator rejected a schema without a cycle, one field of which
\* depends on a name that is no field
C26_RejectedUnknownName ==
    /\ schema_via = "schema"
    /\ schema_status = "raised"
    /\ ~HasDependencyCycle

\* the names of the fields evaluated by call c, in the order of evaluation
EvaluationOrder(c) == [i \in DOMAIN evaluated[c] |-> evaluated[c][i][1]]

\* the field has no dependency but, possibly, "self": it is in the ready
\* queue from the start
ReadyFromStart(name) == FieldOf(name).depends_on \subseteq {"self"}

\* C27: every iteration of the while loop of clean evaluates the field at
\* the end of the ready queue, the one queued last, and leaves the fields
\* that were before it in the queue where they were, the fields it promotes
\* going after them; every dependency of the field evaluated that is a field
\* was evaluated before; the fields that are ready from the start are
\* evaluated in the reverse of their order in the schema; and when no field
\* has a dependency, the errors clean returns are in the reverse of the
\* order of the fields.
C27_LastQueuedFirst ==
    [][\A c \in CallIds :
        /\ Len(evaluated'[c]) > Len(evaluated[c]) =>
              LET top == Len(eval_queue[c])
              IN  /\ top > 0
                  /\ LastEvaluated(c)' = eval_queue[c][top][1]
                  /\ Len(eval_queue'[c]) >= top - 1
                  /\ SubSeq(eval_queue'[c], 1, top - 1) =
                        SubSeq(eval_queue[c], 1, top - 1)
                  /\ FieldOf(LastEvaluated(c)').depends_on \cap FieldNames
                        \subseteq EvaluatedNames(c)
        /\ \A i, j \in DOMAIN evaluated'[c] :
              (/\ i < j
               /\ ReadyFromStart(evaluated'[c][i][1])
               /\ ReadyFromStart(evaluated'[c][j][1])) =>
                  DeclarationIndex(evaluated'[c][i][1])
                      > DeclarationIndex(evaluated'[c][j][1])
        /\ (/\ pc'[c] = "returned"
            /\ returned'[c].cls = "ValidationError"
            /\ \A n \in FieldNames : ReadyFromStart(n)) =>
              \A i, j \in DOMAIN returned'[c].errors :
                  i < j =>
                    DeclarationIndex(returned'[c].errors[i].field[1].v)
                        >= DeclarationIndex(returned'[c].errors[j].field[1].v)
      ]_vars

\* C27 witness: in a schema of the fields a, b and c, c depending on b, the
\* call evaluated b, then c, which b's evaluation promoted, and only then a,
\* which had been in the ready queue from the start; clean returned.
C27_Witness ==
    \E c \in CallIds :
        /\ EvaluationOrder(c) = <<"b", "c", "a">>
        /\ FieldOf("c").depends_on = {"b"}
        /\ FieldOf("a").depends_on = {}
        /\ FieldOf("b").depends_on = {}
        /\ pc[c] = "returned"

\* a schema of two fields without dependencies was given nothing, and clean
\* returned the error of the second field before the error of the first
ReverseOrderOfErrors ==
    \E c \in CallIds :
        /\ pc[c] = "returned"
        /\ returned[c].cls = "ValidationError"
        /\ \A n \in FieldNames : ReadyFromStart(n)
        /\ Len(schema_fields) = 2
        /\ Len(returned[c].errors) = 2
        /\ returned[c].errors[1].field = <<PyStr(schema_fields[2][1])>>
        /\ returned[c].errors[2].field = <<PyStr(schema_fields[1][1])>>

\* C28: in every clean call each iteration of the while loop takes a field
\* that no earlier iteration of the call has taken, and the iterations gone
\* through and the fields still in the ready queue are together never more
\* than the fields of the schema, whatever the data and whichever validators
\* fail: the loop ends after at most one iteration per field, and a call
\* that has ended without an exception has an empty ready queue.
C28_CleanTerminates ==
    \A c \in CallIds :
        /\ Cardinality(EvaluatedNames(c)) = Len(evaluated[c])
        /\ EvaluatedNames(c) \subseteq DictKeys(schema_fields)
        /\ Len(evaluated[c]) + Len(eval_queue[c]) <= Len(schema_fields)
        /\ pc[c] = "returned" => eval_queue[c] = <<>>

\* C28 witness: a call on a schema of three fields has returned after three
\* iterations, one field having failed and another having succeeded.
C28_Witness ==
    \E c \in CallIds :
        /\ Len(schema_fields) = 3
        /\ Len(evaluated[c]) = 3
        /\ pc[c] = "returned"
        /\ eval_queue[c] = <<>>
        /\ \E n \in FieldNames : HasErrors(c, n)
        /\ \E n \in FieldNames : HasValue(c, n)

\* the names under which the field is looked up in the input data
LookupNames(name) ==
    IF FieldOf(name).accepts # <<>>
    THEN {FieldOf(name).accepts[i] : i \in DOMAIN FieldOf(name).accepts}
    ELSE {name}

\* the input data of call c holds nothing for the field
InputOmitted(c, name) == LookupNames(name) \cap DOMAIN call_data[c].v = {}

\* the field is Optional and its chain has a validator that declares value,
\* so that its nullability is looked at
OptionalResolved(name) ==
    /\ FieldOf(name).nullability.cls = "Optional"
    /\ \E i \in DOMAIN FieldOf(name).validators :
          "value" \in get_deps(FieldOf(name).validators[i])

\* call c has given the field a, whose input it took for omitted, the Value
\* of its configured omitted value without calling a validator of a; every
\* field that depends on a and has nothing else to wait for is queued or
\* evaluated, is evaluated when clean returns, and every call of one of its
\* validators binds the parameter a to the omitted value of a
ResolvedAsOmitted(c, a) ==
    /\ DictGet(results[c], a) = Value(FieldOf(a).nullability.omitted_value)
    /\ \A i \in DOMAIN calls_log[c] : calls_log[c][i].field # <<PyStr(a)>>
    /\ \A b \in FieldNames :
          (/\ a \in FieldOf(b).depends_on
           /\ \A d \in FieldOf(b).depends_on : HasValue(c, d)) =>
              /\ b \in EvaluatedNames(c)
                    \/ \E i \in DOMAIN eval_queue[c] : eval_queue[c][i][1] = b
              /\ pc[c] = "returned" => b \in EvaluatedNames(c)
              /\ \A i \in DOMAIN calls_log[c] :
                    (calls_log[c][i].field = <<PyStr(b)>>
                        /\ a \in DOMAIN calls_log[c][i].kwargs) =>
                      calls_log[c][i].kwargs[a] =
                          FieldOf(a).nullability.omitted_value

\* C29: in every clean call an Optional field whose nullability is looked at
\* and for which the input data holds nothing is, once evaluated, resolved to
\* the Value of its configured omitted value (the omitted sentinel by
\* default), and a field that depends on it is still evaluated, its validator
\* receiving that omitted value for the parameter.
C29_OmittedOptionalResolved ==
    \A c \in CallIds : \A a \in FieldNames :
        (/\ OptionalResolved(a)
         /\ InputOmitted(c, a)
         /\ a \in EvaluatedNames(c)) => ResolvedAsOmitted(c, a)

\* the same for the calls whose input data is a mapping
OmittedOptionalResolvedInMappings ==
    \A c \in CallIds : \A a \in FieldNames :
        (/\ OptionalResolved(a)
         /\ call_data[c].cls = "dict"
         /\ InputOmitted(c, a)
         /\ a \in EvaluatedNames(c)) => ResolvedAsOmitted(c, a)

\* a mapping without a was cleaned by a schema whose field a is Optional with
\* the omitted value "default" and whose field b is computed from a: the
\* validator of b was called with "default" and clean returned the record
OmittedDependencyReceived ==
    \E c \in CallIds : \E i \in DOMAIN calls_log[c] :
        /\ call_data[c].cls = "dict"
        /\ "a" \in FieldNames /\ "b" \in FieldNames
        /\ OptionalResolved("a")
        /\ InputOmitted(c, "a")
        /\ calls_log[c][i].field = <<PyStr("b")>>
        /\ calls_log[c][i].kwargs = [a |-> PyStr("default")]
        /\ pc[c] = "returned"
        /\ returned[c].cls = "dict"

\* the entry e of the log is a call of a validator of a field of the schema
TopLevelEntry(c, e) ==
    /\ Len(e.field) = 1
    /\ e.field[1].cls = "str"
    /\ e.field[1].v \in EvaluatedNames(c)

\* the entry e of the log is a call of a validator of the inner field of a
\* list, for one element
ElementEntry(e) == Len(e.field) = 1 /\ e.field[1].cls = "int"

\* the last entry before entry i of call c that satisfies P
LastBefore(c, i, P(_)) ==
    CHOOSE w \in 1..(i - 1) :
        /\ P(calls_log[c][w])
        /\ \A x \in (w + 1)..(i - 1) : ~P(calls_log[c][x])

\* the running value the validator of entry i of call c is to be given: for
\* the first validator of a chain the raw input of the field, or the element
\* of the list the listfield wrapped; afterwards what the validator before it
\* in the chain made
RunningValue(c, i) ==
    LET e == calls_log[c][i]
        Before(x) == x.field = e.field /\ x.index = e.index - 1
        Wraps(x) == OutputOf(c, x).cls = "UnvalidatedWrappedValue"
    IN  IF e.index > 1
        THEN RunningAfter(c, calls_log[c][LastBefore(c, i, Before)])
        ELSE IF ElementEntry(e)
        THEN OutputOf(c, calls_log[c][LastBefore(c, i, Wraps)])
                 .value.v[e.field[1].v + 1]
        ELSE RawOf(c, e.field[1].v)

\* C30: whenever a validator is called, for a field of the schema or for the
\* inner field of a list on one element, a value parameter is bound to the
\* running value of that field (the raw input or the element for the first
\* validator, what the validator before it made afterwards), whatever the
\* other fields of the schema are named, and every other parameter except
\* context is bound to the value held by the result stored under that name,
\* which is a Value.
C30_OwnValueAndSiblingValues ==
    \A c \in CallIds : \A i \in DOMAIN calls_log[c] :
        LET e == calls_log[c][i]
        IN  (TopLevelEntry(c, e) \/ ElementEntry(e)) =>
              /\ "value" \in get_deps(e.func) =>
                    e.kwargs["value"] = RunningValue(c, i)
              /\ \A p \in get_deps(e.func) \ {"context", "value"} :
                    /\ HasValue(c, p)
                    /\ e.kwargs[p] = DictGet(results[c], p).value
              /\ DOMAIN e.kwargs \subseteq get_deps(e.func)

\* C30 witness: a schema has a string field named value and, after it, a
\* list field b; for {value: "John", b: ["x", "y"]} the listfield was called
\* with the list, the inner validator with "x" and with "y", the validator of
\* the field value with "John", and clean returned both values.
C30_Witness ==
    \E c \in CallIds :
        /\ Len(schema_fields) = 2
        /\ schema_fields[1][1] = "value"
        /\ schema_fields[2][1] = "b"
        /\ call_data[c].v["b"] = PyList(<<PyStr("x"), PyStr("y")>>)
        /\ Len(calls_log[c]) = 4
        /\ calls_log[c][1].field = <<PyStr("b")>>
        /\ calls_log[c][1].kwargs = [value |-> call_data[c].v["b"]]
        /\ calls_log[c][2].field = <<PyInt(0)>>
        /\ calls_log[c][2].kwargs = [value |-> PyStr("x")]
        /\ calls_log[c][3].field = <<PyInt(1)>>
        /\ calls_log[c][3].kwargs = [value |-> PyStr("y")]
        /\ calls_log[c][4].field = <<PyStr("value")>>
        /\ calls_log[c][4].kwargs = [value |-> PyStr("John")]
        /\ pc[c] = "returned"
        /\ returned[c].cls = "dict"
        /\ ReturnedValue(c, "value") = PyStr("John")
        /\ ReturnedValue(c, "b") = PyList(<<PyStr("x"), PyStr("y")>>)

\* a schema has a field b and, after it, a string field named value: the
\* field value was evaluated first, and putting together the arguments of the
\* first validator of b raised TypeError out of clean, no validator of b
\* having been called
RaisedOnSiblingNamedValue ==
    \E c \in CallIds :
        /\ Len(schema_fields) = 2
        /\ schema_fields[1][1] = "b"
        /\ schema_fields[2][1] = "value"
        /\ HasValue(c, "value")
        /\ pc[c] = "raised"
        /\ returned[c] = Raise("TypeError")
        /\ EvaluatedNames(c) = {"value", "b"}
        /\ CallsOf(c, "b") = <<>>

\* the validator of the inner field of a list was called, for an element,
\* with the validated value of the sibling field a
ElementReadsSibling ==
    \E c \in CallIds : \E i \in DOMAIN calls_log[c] :
        /\ ElementEntry(calls_log[c][i])
        /\ "a" \in get_deps(calls_log[c][i].func)
        /\ calls_log[c][i].kwargs =
              [value |-> PyStr("x"), a |-> PyStr("John")]
        /\ pc[c] = "returned"

====
